---------------------------- MODULE Spec2Model ----------------------------
(***************************************************************************)
(* Antigravity Usage Stats: the local-service discovery and quota-polling  *)
(* engine (AntigravityClient, QuotaFetcher, PollingManager) as a state     *)
(* machine.  A fetch cycle is one asynchronous call of                     *)
(* PollingManager.poll(); the Node event loop runs each continuation of a  *)
(* cycle to its next I/O wait without interleaving, so every action below  *)
(* is one such run-to-next-wait step.                                      *)
(***************************************************************************)
EXTENDS Integers, Naturals, Sequences, FiniteSets, TLC

(***************************************************************************)
(* Bounds of the model.                                                    *)
(***************************************************************************)
\* number of fetch cycles (calls of poll()) a behaviour may start
MaxCycles == 2
\* number of cycles that may be in flight at the same time
MaxInFlight == 2
\* number of listener identities
MaxListeners == 2
\* words in a model label given to inferPoolId
MaxWords == 3
\* records in a list given to groupByPool
MaxRecords == 3
\* the most candidate processes of one process listing
MaxProcesses == 2
\* the minutes that pass while quota updates are notified
MaxElapsed == 2
\* the calls that change the stored accounts
MaxOps == 2
\* the minutes the auto-wake scheduler is followed: a day and a minute
MaxMinutes == 1441

Cycles == 1..MaxCycles
ListenerIds == 1..MaxListeners

\* null for the object-valued fields (processInfo, lastFetchResult, ...)
NULL == [null |-> TRUE]
\* null / undefined for the number-valued fields (dates, which are readings
\* of the logical clock, and fractions)
None == 0 - 1
\* FetchResult.error left undefined
NoError == "none"

(***************************************************************************)
(* Domain model (models.ts)                                                *)
(***************************************************************************)
\* enum QuotaStatus
QuotaStatus == {"healthy", "warning", "critical", "exhausted", "unknown"}

\* ThresholdConfig values: the defaults and one user-configured alternative
DefaultThresholds == [warning |-> 30, critical |-> 10]
ThresholdChoices == {DefaultThresholds, [warning |-> 60, critical |-> 40]}

Sign(x) == IF x > 0 THEN 1 ELSE IF x < 0 THEN 0 - 1 ELSE 0

\* r and c, each scaled by a power of two until c <= r < 2c
RECURSIVE Normalised(_, _)
Normalised(r, c) ==
    IF r < c THEN Normalised(2 * r, c)
    ELSE IF r >= 2 * c THEN Normalised(r, 2 * c)
    ELSE <<r, c>>

\* long division of rem by c, n groups of 13 binary digits: the last group
\* and the remainder
RECURSIVE Division(_, _, _)
Division(rem, c, n) ==
    IF n = 1 THEN <<(rem * 8192) \div c, (rem * 8192) % c>>
    ELSE Division((rem * 8192) % c, c, n - 1)

\* (remaining / capacity) * 100 in IEEE 754 double precision, for positive
\* integers below 8192: the sign of the computed number minus the exact
\* quotient.  The division keeps 53 binary digits (the leading one and four
\* groups of 13), rounded to nearest, ties to even; the product of that
\* significand and 100 has 6 or 7 digits too many and is rounded again
Rounding(remaining, capacity) ==
    LET n == Normalised(remaining, capacity)
        r == n[1]
        c == n[2]
        qr == Division(r - c, c, 4)
        up == 2 * qr[2] > c \/ (2 * qr[2] = c /\ qr[1] % 2 = 1)
        d == IF up THEN c - qr[2] ELSE 0 - qr[2]
        low == (qr[1] + (IF up THEN 1 ELSE 0)) % 256
        unit == IF 100 * r < 128 * c THEN 64 ELSE 128
        cut == (100 * low) % unit
        odd == ((100 * low) \div unit) % 2 = 1
        d2 == IF 2 * cut < unit \/ (2 * cut = unit /\ ~odd) THEN 0 - cut
              ELSE unit - cut
    IN Sign(100 * d + c * d2)

\* Rounding for the capacities that occur, computed once
Capacities == {50, 100, 500}
RoundingTable == [c \in Capacities |-> [r \in 1..c |-> Rounding(r, c)]]

\* the sign of (remaining / capacity) * 100 minus the exact quotient, for
\* any integers and a positive capacity
rounded(remaining, capacity) ==
    IF remaining = 0 THEN 0
    ELSE IF remaining < 0 THEN 0 - Rounding(0 - remaining, capacity)
    ELSE IF capacity \in Capacities /\ remaining <= capacity
         THEN RoundingTable[capacity][remaining]
    ELSE Rounding(remaining, capacity)

\* percentRemaining, a JavaScript number: <<num, den, e>> stands for the
\* double nearest to num/den (den > 0) as the source computes it, where e
\* tells whether that double is below (-1), equal to (0) or above (1) the
\* exact fraction
Percent(remaining, capacity) ==
    IF capacity > 0
    THEN <<remaining * 100, capacity, rounded(remaining, capacity)>>
    ELSE <<0, 1, 0>>

\* Math.round of a JavaScript number: the nearest integer, halves upwards
mathRound(x) ==
    IF 2 * (x[1] % x[2]) > x[2] \/ (2 * (x[1] % x[2]) = x[2] /\ x[3] >= 0)
    THEN (x[1] \div x[2]) + 1
    ELSE x[1] \div x[2]

\* p <= k for a percentage p and an integer k
PercentLE(p, k) == p[1] < k * p[2] \/ (p[1] = k * p[2] /\ p[3] <= 0)

\* an integer as a JavaScript number
Number(n) == <<n, 1, 0>>

\* a calculateStatus whose critical band excludes the threshold itself
statusBelow(percentRemaining, thresholds) ==
    IF PercentLE(percentRemaining, 0) THEN "exhausted"
    ELSE IF PercentLE(percentRemaining, thresholds.critical - 1) THEN "critical"
    ELSE IF PercentLE(percentRemaining, thresholds.warning) THEN "warning"
    ELSE "healthy"

\* QuotaHelpers.calculateStatus
calculateStatus(percentRemaining, thresholds) ==
    IF PercentLE(percentRemaining, 0) THEN "exhausted"
    ELSE IF PercentLE(percentRemaining, thresholds.critical) THEN "critical"
    ELSE IF PercentLE(percentRemaining, thresholds.warning) THEN "warning"
    ELSE "healthy"

Max(a, b) == IF a >= b THEN a ELSE b
Min(a, b) == IF a <= b THEN a ELSE b

\* QuotaHelpers.createQuotaInfo; t is Date.now()
createQuotaInfo(modelId, modelName, poolId, remaining, capacity, resetTime, thresholds, t) ==
    [modelId |-> modelId,
     modelName |-> modelName,
     poolId |-> poolId,
     remaining |-> remaining,
     capacity |-> capacity,
     percentRemaining |-> Percent(remaining, capacity),
     status |-> calculateStatus(Percent(remaining, capacity), thresholds),
     resetTime |-> resetTime,
     resetInSeconds |-> IF resetTime = None THEN None ELSE Max(0, resetTime - t),
     lastUpdated |-> t]

\* a FetchResult envelope
FetchResult(success, quotas, error, source, timestamp) ==
    [success |-> success, quotas |-> quotas, error |-> error,
     source |-> source, timestamp |-> timestamp]

\* the outcome of a call: a returned value or a raised error
Returned(v) == [kind |-> "returned", value |-> v]
Raised(msg) == [kind |-> "raised", value |-> msg]

(***************************************************************************)
(* Protocol client: response mapping (antigravityClient.ts)                *)
(***************************************************************************)
\* A label is a sequence of characters.  s occurs in t as a substring
Includes(t, s) ==
    \E i \in 0..(Len(t) - Len(s)) : SubSeq(t, i + 1, i + Len(s)) = s

UpperCase == <<"A", "B", "C", "D", "E", "F", "G", "H", "I", "J", "K", "L", "M",
               "N", "O", "P", "Q", "R", "S", "T", "U", "V", "W", "X", "Y", "Z">>
LowerCase == <<"a", "b", "c", "d", "e", "f", "g", "h", "i", "j", "k", "l", "m",
               "n", "o", "p", "q", "r", "s", "t", "u", "v", "w", "x", "y", "z">>

\* String.prototype.toLowerCase
toLowerCase(t) ==
    [i \in 1..Len(t) |->
        IF \E k \in 1..26 : UpperCase[k] = t[i]
        THEN LowerCase[CHOOSE k \in 1..26 : UpperCase[k] = t[i]]
        ELSE t[i]]

\* an inferPoolId that tests for Gemini Flash before Gemini Pro
inferPoolIdFlashFirst(label) ==
    LET lowerLabel == toLowerCase(label) IN
    IF Includes(lowerLabel, <<"c", "l", "a", "u", "d", "e">>) THEN "claude-pool"
    ELSE IF Includes(lowerLabel, <<"g", "e", "m", "i", "n", "i">>)
            /\ Includes(lowerLabel, <<"f", "l", "a", "s", "h">>) THEN "gemini-flash-pool"
    ELSE IF Includes(lowerLabel, <<"g", "e", "m", "i", "n", "i">>)
            /\ Includes(lowerLabel, <<"p", "r", "o">>) THEN "gemini-pro-pool"
    ELSE IF Includes(lowerLabel, <<"g", "p", "t">>) THEN "claude-pool"
    ELSE "default-pool"

\* AntigravityClient.inferPoolId
inferPoolId(label) ==
    LET lowerLabel == toLowerCase(label) IN
    IF Includes(lowerLabel, <<"c", "l", "a", "u", "d", "e">>) THEN "claude-pool"
    ELSE IF Includes(lowerLabel, <<"g", "e", "m", "i", "n", "i">>)
            /\ Includes(lowerLabel, <<"p", "r", "o">>) THEN "gemini-pro-pool"
    ELSE IF Includes(lowerLabel, <<"g", "e", "m", "i", "n", "i">>)
            /\ Includes(lowerLabel, <<"f", "l", "a", "s", "h">>) THEN "gemini-flash-pool"
    ELSE IF Includes(lowerLabel, <<"g", "p", "t">>) THEN "claude-pool"
    ELSE "default-pool"

\* label.toLowerCase().replace(/\s+/g, '-'): every run of blanks becomes one '-'
RECURSIVE Slug(_)
Slug(t) ==
    IF t = <<>> THEN <<>>
    ELSE IF Head(t) = " "
         THEN IF Len(t) > 1 /\ t[2] = " " THEN Slug(Tail(t))
              ELSE <<"-">> \o Slug(Tail(t))
         ELSE <<Head(toLowerCase(<<Head(t)>>))>> \o Slug(Tail(t))

\* 'Unknown Model'
UnknownModel == <<"U", "n", "k", "n", "o", "w", "n", " ", "M", "o", "d", "e", "l">>

\* One AntigravityModel of a reply: label and model are character sequences,
\* empty when absent; quotaInfo is NULL or [remainingFraction, resetTime];
\* remainingFraction is None or the fraction in hundredths (37 stands for
\* 0.37); resetTime is None or a date.  models.filter(m => m.quotaInfo)
RECURSIVE SelectQuota(_)
SelectQuota(models) ==
    IF models = <<>> THEN <<>>
    ELSE IF Head(models).quotaInfo = NULL THEN SelectQuota(Tail(models))
         ELSE <<Head(models)>> \o SelectQuota(Tail(models))

\* a mapping that takes an absent remainingFraction for 0
mapModelEmpty(m, thresholds, t) ==
    LET label == IF m.label = <<>> THEN UnknownModel ELSE m.label
        modelId == IF m.model = <<>> THEN Slug(label) ELSE m.model
        remaining == IF m.quotaInfo.remainingFraction = None THEN 0
                     ELSE mathRound(Percent(m.quotaInfo.remainingFraction, 100))
    IN createQuotaInfo(modelId, label, inferPoolId(label), remaining, 100,
                       m.quotaInfo.resetTime, thresholds, t)

\* the mapping of one model inside AntigravityClient.parseResponse;
\* remainingFraction * capacity, for the double k/100 and the capacity 100,
\* is the number that (k / 100) * 100 computes
mapModel(m, thresholds, t) ==
    LET label == IF m.label = <<>> THEN UnknownModel ELSE m.label
        modelId == IF m.model = <<>> THEN Slug(label) ELSE m.model
        remaining == IF m.quotaInfo.remainingFraction = None THEN 100
                     ELSE mathRound(Percent(m.quotaInfo.remainingFraction, 100))
    IN createQuotaInfo(modelId, label, inferPoolId(label), remaining, 100,
                       m.quotaInfo.resetTime, thresholds, t)

\* AntigravityClient.parseResponse: data.models is clientModelConfigs || []
parseResponse(data, thresholds, t) ==
    LET kept == SelectQuota(data.models)
    IN [i \in 1..Len(kept) |-> mapModel(kept[i], thresholds, t)]

(***************************************************************************)
(* Grouping by pool (quotaGrouper.ts).  A pool id and a group name are      *)
(* character sequences; names is the customGroupNames map, a function      *)
(* from pool ids to the custom name, "undefined" where none is set         *)
(***************************************************************************)
\* String.prototype.toUpperCase
toUpperCase(t) ==
    [i \in 1..Len(t) |->
        IF \E k \in 1..26 : LowerCase[k] = t[i]
        THEN UpperCase[CHOOSE k \in 1..26 : LowerCase[k] = t[i]]
        ELSE t[i]]

\* QuotaGrouper.generateGroupName: a trailing "-pool" removed, every word
\* between hyphens capitalised, the words joined by blanks
generateGroupName(poolId) ==
    LET n == Len(poolId)
        stem == IF n >= 5 /\ toLowerCase(SubSeq(poolId, n - 4, n))
                                = <<"-", "p", "o", "o", "l">>
                THEN SubSeq(poolId, 1, n - 5) ELSE poolId
    IN [i \in 1..Len(stem) |->
           IF stem[i] = "-" THEN " "
           ELSE IF i = 1 \/ stem[i - 1] = "-" THEN toUpperCase(<<stem[i]>>)[1]
           ELSE stem[i]]

\* String.prototype.localeCompare on names made of letters and blanks, in
\* the root collation: the letters compared without regard to case, a
\* blank before every letter, a prefix before its extensions; names that
\* differ in case only by the first such place, the small letter first
localeCompare(a, b) ==
    LET weight(ch) == IF ch = " " THEN 0
                      ELSE CHOOSE k \in 1..26 : LowerCase[k] = toLowerCase(<<ch>>)[1]
        least(S) == CHOOSE i \in S : \A j \in S : i <= j
        both == 1..Min(Len(a), Len(b))
        letters == {i \in both : weight(a[i]) # weight(b[i])}
        cases == {i \in both : a[i] # b[i]}
    IN IF letters # {}
       THEN (IF weight(a[least(letters)]) < weight(b[least(letters)]) THEN 0 - 1 ELSE 1)
       ELSE IF Len(a) # Len(b) THEN (IF Len(a) < Len(b) THEN 0 - 1 ELSE 1)
       ELSE IF cases = {} THEN 0
       ELSE IF toLowerCase(<<a[least(cases)]>>)[1] = a[least(cases)] THEN 0 - 1 ELSE 1

\* the statusOrder table of groupByPool and createGroup
statusOrder(status) ==
    CASE status = "exhausted" -> 0
      [] status = "critical" -> 1
      [] status = "warning" -> 2
      [] status = "healthy" -> 3
      [] status = "unknown" -> 4

\* a Math.min that returns the largest time
latest(times) == CHOOSE t \in times : \A u \in times : u <= t

\* Math.min(...validResetTimes.map(t => t.getTime()))
earliest(times) == CHOOSE t \in times : \A u \in times : t <= u

\* QuotaGrouper.createGroup
createGroup(poolId, models, thresholds, names) ==
    LET Sum(f(_)) ==
            LET RECURSIVE upTo(_)
                upTo(i) == IF i = 0 THEN 0 ELSE upTo(i - 1) + f(models[i])
            IN upTo(Len(models))
        remainingOf(m) == m.remaining
        capacityOf(m) == m.capacity
        validResetTimes == {models[i].resetTime : i \in 1..Len(models)} \ {None}
        RECURSIVE worst(_)
        worst(i) == IF i = 0 THEN "healthy"
                    ELSE IF statusOrder(models[i].status) < statusOrder(worst(i - 1))
                         THEN models[i].status ELSE worst(i - 1)
    IN [poolId |-> poolId,
        groupName |-> generateGroupName(poolId),
        customName |-> names[poolId],
        models |-> models,
        totalRemaining |-> Sum(remainingOf),
        totalCapacity |-> Sum(capacityOf),
        percentRemaining |-> Percent(Sum(remainingOf), Sum(capacityOf)),
        status |-> worst(Len(models)),
        resetTime |-> IF validResetTimes # {} THEN earliest(validResetTimes) ELSE None]

\* a comparator that orders groups by the name the user sees
compareDisplayed(a, b) ==
    IF statusOrder(a.status) # statusOrder(b.status)
    THEN statusOrder(a.status) - statusOrder(b.status)
    ELSE IF a.customName # "undefined" /\ b.customName = "undefined" THEN 0 - 1
    ELSE IF a.customName = "undefined" /\ b.customName # "undefined" THEN 1
    ELSE localeCompare(a.groupName, b.groupName)

\* the comparator of groups.sort in groupByPool
compareGroups(a, b) ==
    IF statusOrder(a.status) - statusOrder(b.status) # 0
    THEN statusOrder(a.status) - statusOrder(b.status)
    ELSE localeCompare(a.groupName, b.groupName)

\* Array.prototype.sort with compareGroups: a stable sort
RECURSIVE sortGroups(_)
sortGroups(groups) ==
    IF groups = <<>> THEN <<>>
    ELSE LET rest == sortGroups(Tail(groups))
             after == {i \in 0..Len(rest) :
                          \A j \in 1..i : compareGroups(Head(groups), rest[j]) > 0}
             k == CHOOSE i \in after : \A j \in after : j <= i
         IN SubSeq(rest, 1, k) \o <<Head(groups)>> \o SubSeq(rest, k + 1, Len(rest))

\* a poolMap entry that holds only the last record of the pool
poolModelsLast(quotas, poolId) ==
    LET inPool(q) == q.poolId = poolId
        all == SelectSeq(quotas, inPool)
    IN <<all[Len(all)]>>

\* the poolMap entry of a pool id: its records in input order
poolModels(quotas, poolId) ==
    LET inPool(q) == q.poolId = poolId IN SelectSeq(quotas, inPool)

\* the keys of poolMap, in insertion order
RECURSIVE poolKeys(_)
poolKeys(quotas) ==
    IF quotas = <<>> THEN <<>>
    ELSE LET before == poolKeys(SubSeq(quotas, 1, Len(quotas) - 1))
             key == quotas[Len(quotas)].poolId
         IN IF \E i \in 1..Len(before) : before[i] = key THEN before
            ELSE Append(before, key)

\* QuotaGrouper.groupByPool
groupByPool(quotas, thresholds, names) ==
    LET keys == poolKeys(quotas)
    IN sortGroups([i \in 1..Len(keys) |->
                      createGroup(keys[i], poolModels(quotas, keys[i]), thresholds, names)])

\* QuotaGrouper.flattenGroups
RECURSIVE flattenGroups(_)
flattenGroups(groups) ==
    IF groups = <<>> THEN <<>>
    ELSE Head(groups).models \o flattenGroups(Tail(groups))

(***************************************************************************)
(* Peer discovery (antigravityClient.ts)                                   *)
(***************************************************************************)
\* A candidate process is what the process listing reports for one process
\* with the binary name of the language server: its pid and its command
\* line, of which the model keeps what the code reads: appDataDir, the word
\* after --app_data_dir ("" when the parameter is absent); inPath, whether
\* a path segment is antigravity; tokenParam, whether --csrf_token occurs,
\* and token, the characters after it; port, the number after
\* --extension_server_port (None when the parameter is absent)
\*
\* AntigravityClient.isAntigravityProcess
isAntigravityProcess(proc) == proc.appDataDir = "antigravity" \/ proc.inPath

\* AntigravityClient.parseCommandLine: NULL when no token is matched.  The
\* match of /--csrf_token[=\s]+([a-f0-9-]+)/i is the longest run of
\* hexadecimal digits and hyphens the value begins with
parseCommandLine(proc) ==
    LET RECURSIVE hexPrefix(_)
        hexPrefix(t) ==
            IF t # <<>> /\ Head(t) \in {"0", "1", "2", "3", "4", "5", "6", "7", "8", "9",
                                         "a", "b", "c", "d", "e", "f",
                                         "A", "B", "C", "D", "E", "F", "-"}
            THEN <<Head(t)>> \o hexPrefix(Tail(t))
            ELSE <<>>
    IN IF proc.tokenParam /\ hexPrefix(proc.token) # <<>>
       THEN [pid |-> proc.pid,
             extensionPort |-> IF proc.port # None THEN proc.port ELSE 0,
             csrfToken |-> hexPrefix(proc.token)]
       ELSE NULL

\* AntigravityClient.findProcess: the first candidate of the scan that
\* parseCommandLine accepts, NULL when none is.  Windows scans, with
\* PowerShell and then with WMIC when that gave nothing, the candidates
\* isAntigravityProcess accepts; macOS the lines of ps that contain
\* --csrf_token (a line of ps aux has its eleven columns); Linux the lines
\* of pgrep that contain --extension_server_port
findProcess(platform, procs) ==
    LET RECURSIVE firstParsed(_)
        firstParsed(lines) ==
            IF lines = <<>> THEN NULL
            ELSE IF parseCommandLine(Head(lines)) # NULL
                 THEN parseCommandLine(Head(lines))
                 ELSE firstParsed(Tail(lines))
        hasToken(proc) == proc.tokenParam
        hasPort(proc) == proc.port # None
        owned == SelectSeq(procs, isAntigravityProcess)
    IN CASE platform = "win32" ->
                IF firstParsed(owned) # NULL THEN firstParsed(owned) ELSE firstParsed(owned)
         [] platform = "darwin" -> firstParsed(SelectSeq(procs, hasToken))
         [] OTHER -> firstParsed(SelectSeq(procs, hasPort))

\* a getListeningPorts that returns the ports as the tool reported them
portsAsReported(raw) == raw

\* AntigravityClient.getListeningPorts on the ports the tool reported:
\* a port is added when !ports.includes(port), then
\* ports.sort((a, b) => a - b)
getListeningPorts(raw) ==
    LET first(i) == \A j \in 1..(i - 1) : raw[j] # raw[i]
        RECURSIVE from(_)
        from(i) == IF i > Len(raw) THEN <<>>
                   ELSE IF first(i) THEN <<raw[i]>> \o from(i + 1) ELSE from(i + 1)
        RECURSIVE sort(_)
        sort(ports) ==
            IF ports = <<>> THEN <<>>
            ELSE LET reported == {ports[i] : i \in 1..Len(ports)}
                     least == CHOOSE x \in reported : \A y \in reported : x <= y
                     notLeast(x) == x # least
                 IN <<least>> \o sort(SelectSeq(ports, notLeast))
    IN sort(from(1))

\* findWorkingPort: the first port of the list whose probe succeeds, None
\* when no probe does; okPorts is the set of ports that answer the probe
\* with HTTP 200 and a parseable body (testPort)
RECURSIVE findWorkingPort(_, _)
findWorkingPort(ports, okPorts) ==
    IF ports = <<>> THEN None
    ELSE IF Head(ports) \in okPorts THEN Head(ports)
         ELSE findWorkingPort(Tail(ports), okPorts)

\* a connect that takes the first listening port when no probe succeeds
connectUnprobed(basicInfo, ports, okPorts) ==
    IF basicInfo = NULL THEN NULL
    ELSE IF Len(ports) = 0 THEN NULL
    ELSE [pid |-> basicInfo.pid,
          extensionPort |-> basicInfo.extensionPort,
          csrfToken |-> basicInfo.csrfToken,
          connectPort |-> IF findWorkingPort(ports, okPorts) = None THEN Head(ports)
                          ELSE findWorkingPort(ports, okPorts)]

\* AntigravityClient.connect: the connection it stores, NULL when it
\* returns false.  basicInfo is the result of findProcess (NULL or
\* [pid, extensionPort, csrfToken]), ports the result of getListeningPorts
connect(basicInfo, ports, okPorts) ==
    IF basicInfo = NULL THEN NULL
    ELSE IF Len(ports) = 0 THEN NULL
    ELSE IF findWorkingPort(ports, okPorts) = None THEN NULL
    ELSE [pid |-> basicInfo.pid,
          extensionPort |-> basicInfo.extensionPort,
          csrfToken |-> basicInfo.csrfToken,
          connectPort |-> findWorkingPort(ports, okPorts)]

\* AntigravityClient.request: what the promise settles to for a reply of the
\* peer.  The HTTP status of the reply is not read.
\* A body is [json |-> "invalid"] when JSON.parse rejects it, else
\* [json |-> "null"], [json |-> "object", models |-> ...] (models is
\* userStatus.cascadeModelConfigData.clientModelConfigs || []) or
\* [json |-> "array", items |-> ...]
BadJson == [json |-> "invalid"]
NullJson == [json |-> "null"]
request(reply) ==
    IF reply.kind = "error" THEN Raised("connect ECONNREFUSED")
    ELSE IF reply.kind = "timeout" THEN Raised("Request timeout")
    ELSE IF reply.body = BadJson THEN Raised("Invalid JSON response")
    ELSE Returned(reply.body)

\* the result fetchQuota returns when connect() returned false
NotConnected(t) ==
    FetchResult(FALSE, <<>>, "Not connected to Antigravity", "local", t)

\* AntigravityClient.fetchQuota once the request has settled: the try block
\* around request and parseResponse, and its catch
fetchQuotaResult(reply, thresholds, t) ==
    LET response == request(reply) IN
    IF response.kind = "raised"
    THEN FetchResult(FALSE, <<>>, response.value, "local", t)
    ELSE IF response.value.json # "object"
    THEN FetchResult(FALSE, <<>>, "Cannot read properties of null", "local", t)
    ELSE FetchResult(TRUE, parseResponse(response.value, thresholds, t),
                     NoError, "local", t)

(***************************************************************************)
(* Fetch orchestrator (quotaFetcher.ts)                                    *)
(***************************************************************************)
\* QuotaFetcher.fetchLocal: returns the client's result or raises
fetchLocal(result) ==
    IF ~result.success
    THEN Raised(IF result.error = NoError THEN "Failed to fetch from Antigravity"
                ELSE result.error)
    ELSE Returned(result)

\* one item of the remote array; absent fields are <<>> (texts) and None
\* (numbers).  QuotaFetcher.parseRemoteResponse maps it with defaults;
\* x || d takes d for an absent, empty or zero x
remoteItem(item, thresholds, t) ==
    createQuotaInfo(item.id,
                    IF item.name = <<>> THEN UnknownModel ELSE item.name,
                    IF item.poolId = "" THEN "default" ELSE item.poolId,
                    IF item.remaining = None THEN 0 ELSE item.remaining,
                    IF item.capacity = None \/ item.capacity = 0 THEN 100
                    ELSE item.capacity,
                    item.resetTime, thresholds, t)

\* a parseable body that is no array
NotArray == [json |-> "object", models |-> <<>>]

\* QuotaFetcher.fetchRemote once fetch() has settled: reply is a network
\* error, an abort of the request's signal, or a response with its status
\* and body
fetchRemote(reply, thresholds, t) ==
    IF reply.kind = "error" THEN Raised("fetch failed")
    ELSE IF reply.kind = "aborted" THEN Raised("This operation was aborted")
    ELSE IF ~reply.ok THEN Raised("Remote fetch failed: 500")
    ELSE IF reply.body = BadJson THEN Raised("Unexpected token in JSON")
    ELSE IF reply.body.json # "array" THEN Raised("Invalid response format")
    ELSE Returned(FetchResult(TRUE,
                  [i \in 1..Len(reply.body.items) |->
                      remoteItem(reply.body.items[i], thresholds, t)],
                  NoError, "remote", t))

\* the literal of QuotaFetcher.getMockData
mockQuotas ==
    <<
       [id |-> <<"c", "l", "a", "u", "d", "e", "-", "3", ".", "5", "-", "s", "o", "n", "n", "e", "t">>,
        name |-> <<"C", "l", "a", "u", "d", "e", " ", "3", ".", "5", " ", "S", "o", "n", "n", "e", "t">>,
        poolId |-> "claude-pool", remaining |-> 5, capacity |-> 50],
       [id |-> <<"c", "l", "a", "u", "d", "e", "-", "s", "o", "n", "n", "e", "t", "-", "4", ".", "5", "-", "t", "h", "i", "n", "k", "i", "n", "g">>,
        name |-> <<"C", "l", "a", "u", "d", "e", " ", "S", "o", "n", "n", "e", "t", " ", "4", ".", "5", " ", "(", "T", "h", "i", "n", "k", "i", "n", "g", ")">>,
        poolId |-> "claude-pool", remaining |-> 35, capacity |-> 50],
       [id |-> <<"c", "l", "a", "u", "d", "e", "-", "o", "p", "u", "s", "-", "4", ".", "5", "-", "t", "h", "i", "n", "k", "i", "n", "g">>,
        name |-> <<"C", "l", "a", "u", "d", "e", " ", "O", "p", "u", "s", " ", "4", ".", "5", " ", "(", "T", "h", "i", "n", "k", "i", "n", "g", ")">>,
        poolId |-> "claude-pool", remaining |-> 49, capacity |-> 50],
       [id |-> <<"g", "e", "m", "i", "n", "i", "-", "3", "-", "p", "r", "o", "-", "h", "i", "g", "h">>,
        name |-> <<"G", "e", "m", "i", "n", "i", " ", "3", " ", "P", "r", "o", " ", "(", "H", "i", "g", "h", ")">>,
        poolId |-> "gemini-pro-pool", remaining |-> 100, capacity |-> 100],
       [id |-> <<"g", "e", "m", "i", "n", "i", "-", "3", "-", "p", "r", "o", "-", "l", "o", "w">>,
        name |-> <<"G", "e", "m", "i", "n", "i", " ", "3", " ", "P", "r", "o", " ", "(", "L", "o", "w", ")">>,
        poolId |-> "gemini-pro-pool", remaining |-> 100, capacity |-> 100],
       [id |-> <<"g", "e", "m", "i", "n", "i", "-", "2", ".", "0", "-", "p", "r", "o">>,
        name |-> <<"G", "e", "m", "i", "n", "i", " ", "2", ".", "0", " ", "P", "r", "o">>,
        poolId |-> "gemini-pro-pool", remaining |-> 85, capacity |-> 100],
       [id |-> <<"g", "e", "m", "i", "n", "i", "-", "3", "-", "f", "l", "a", "s", "h">>,
        name |-> <<"G", "e", "m", "i", "n", "i", " ", "3", " ", "F", "l", "a", "s", "h">>,
        poolId |-> "gemini-flash-pool", remaining |-> 167, capacity |-> 500],
       [id |-> <<"g", "e", "m", "i", "n", "i", "-", "2", ".", "0", "-", "f", "l", "a", "s", "h">>,
        name |-> <<"G", "e", "m", "i", "n", "i", " ", "2", ".", "0", " ", "F", "l", "a", "s", "h">>,
        poolId |-> "gemini-flash-pool", remaining |-> 470, capacity |-> 500],
       [id |-> <<"g", "e", "m", "i", "n", "i", "-", "1", ".", "5", "-", "f", "l", "a", "s", "h">>,
        name |-> <<"G", "e", "m", "i", "n", "i", " ", "1", ".", "5", " ", "F", "l", "a", "s", "h">>,
        poolId |-> "gemini-flash-pool", remaining |-> 400, capacity |-> 500],
       [id |-> <<"g", "p", "t", "-", "o", "5", "5", "-", "1", "2", "0", "8">>,
        name |-> <<"G", "P", "T", "-", "O", "5", "5", "-", "1", "2", "0", "8", " ", "(", "M", "e", "d", "i", "a", ".", "m", "l", ")">>,
        poolId |-> "gpt-pool", remaining |-> 60, capacity |-> 100]
    >>

\* QuotaFetcher.getMockData: every record resets 5 hours from now
getMockData(thresholds, t) ==
    FetchResult(TRUE,
        [i \in 1..Len(mockQuotas) |->
            createQuotaInfo(mockQuotas[i].id, mockQuotas[i].name, mockQuotas[i].poolId,
                            mockQuotas[i].remaining, mockQuotas[i].capacity,
                            t + 5 * 60 * 60, thresholds, t)],
        NoError, "local", t)

\* a fetch() whose catch block lets the error go on to the caller
fetchRethrow(errorMessage, last, t) == Raised(errorMessage)

\* the catch block of QuotaFetcher.fetch: the cached result re-tagged, or
\* the failure envelope
fetchCatch(errorMessage, last, t) ==
    IF last # NULL
    THEN Returned([last EXCEPT !.source = "cache", !.error = errorMessage])
    ELSE Returned(FetchResult(FALSE, <<>>, errorMessage, "cache", t))

(***************************************************************************)
(* Poll scheduler (pollingManager.ts)                                      *)
(***************************************************************************)
\* PollingManager.updateIntervalFromConfig
unclamped(interval) == interval

clampInterval(interval) == Max(10, Min(3600, interval))

\* a call of a listener with no try around it
unguardedCall(l, throwers) == IF l \in throwers THEN "raised" ELSE "returned"

\* try { listener(result) } catch { logger.error(...) }: how the guarded
\* call of one listener ends; throwers are the listeners that raise
guardedCall(l, throwers) == IF l \in throwers THEN "caught" ELSE "returned"

\* the loop over the listeners in poll(): the calls made, in order, and
\* whether the loop ended by raising.  ls is the listener set in insertion
\* order
RECURSIVE notifyListeners(_, _, _)
notifyListeners(ls, throwers, result) ==
    IF ls = <<>> THEN [calls |-> <<>>, raised |-> FALSE]
    ELSE LET call == <<[listener |-> Head(ls), result |-> result]>>
             rest == notifyListeners(Tail(ls), throwers, result)
         IN IF guardedCall(Head(ls), throwers) = "raised"
            THEN [calls |-> call, raised |-> TRUE]
            ELSE [calls |-> call \o rest.calls, raised |-> rest.raised]

\* the catch block of PollingManager.poll: the envelope it builds, hands to
\* the listeners and returns
pollCatch(errorMessage, ls, throwers, t) ==
    LET errorResult == FetchResult(FALSE, <<>>, errorMessage, "cache", t)
        told == notifyListeners(ls, throwers, errorResult)
    IN [calls |-> told.calls,
        outcome |-> IF told.raised THEN Raised("listener") ELSE Returned(errorResult)]

\* PollingManager.poll after fetch() has settled with `fetched`: the listener
\* calls it makes and how it ends
poll(fetched, ls, throwers, t) ==
    IF fetched.kind = "raised" THEN pollCatch(fetched.value, ls, throwers, t)
    ELSE LET told == notifyListeners(ls, throwers, fetched.value) IN
         IF told.raised
         THEN LET again == pollCatch("listener", ls, throwers, t)
              IN [calls |-> told.calls \o again.calls, outcome |-> again.outcome]
         ELSE [calls |-> told.calls, outcome |-> Returned(fetched.value)]

(***************************************************************************)
(* Notifications (notifications.ts).  A notification state is               *)
(* [lastNotifiedStatus, lastNotifiedTime], NULL for undefined; times are    *)
(* minutes                                                                 *)
(***************************************************************************)
\* a rule that repeats the same status once the cooldown of 30 seconds
\* has passed
shouldShowAfterCooldown(quota, state, t) ==
    IF quota.status \in {"healthy", "unknown"} THEN FALSE
    ELSE IF state = NULL THEN TRUE
    ELSE quota.status = state.lastNotifiedStatus
         /\ (t - state.lastNotifiedTime) * 60000 > 30000

\* NotificationManager.shouldShowNotification
shouldShowNotification(quota, state, t) ==
    LET statusSeverity(status) ==
            CASE status = "healthy" -> 0
              [] status = "warning" -> 1
              [] status = "critical" -> 2
              [] status = "exhausted" -> 3
              [] status = "unknown" -> 0
    IN IF quota.status \in {"healthy", "unknown"} THEN FALSE
       ELSE IF state = NULL THEN TRUE
       ELSE IF statusSeverity(quota.status) > statusSeverity(state.lastNotifiedStatus)
       THEN TRUE
       ELSE IF quota.status = state.lastNotifiedStatus
               /\ (t - state.lastNotifiedTime) * 60000 > 30000
       THEN FALSE
       ELSE FALSE

\* NotificationManager.onQuotaUpdate with checkAndNotify for each quota in
\* order: the notification states afterwards and the notifications shown
RECURSIVE onQuotaUpdate(_, _, _, _)
onQuotaUpdate(quotas, states, shown, t) ==
    IF quotas = <<>> THEN [states |-> states, shown |-> shown]
    ELSE LET quota == Head(quotas) IN
         IF shouldShowNotification(quota, states[quota.modelId], t)
         THEN onQuotaUpdate(Tail(quotas),
                            [states EXCEPT ![quota.modelId] =
                                [lastNotifiedStatus |-> quota.status,
                                 lastNotifiedTime |-> t]],
                            Append(shown, [modelId |-> quota.modelId,
                                           status |-> quota.status]),
                            t)
         ELSE onQuotaUpdate(Tail(quotas), states, shown, t)

(***************************************************************************)
(* Auto-wake scheduler (scheduler.ts).  Times are minutes since midnight   *)
(* of the first day; a cron expression is [minute, hour], None for '*'     *)
(***************************************************************************)
\* the preset 'Every hour': '0 * * * *'
EveryHour == [minute |-> 0, hour |-> None]

\* CronParser.getNextRunTime at the time t: setMinutes and setHours on a
\* copy of now, a day more if that is not after now; the seconds, which
\* are the same in both until they are zeroed at the end, play no part in
\* the comparison
getNextRunTime(cronExpression, t) ==
    LET withMinute == IF cronExpression.minute # None
                      THEN t - (t % 60) + cronExpression.minute ELSE t
        next == IF cronExpression.hour # None
                THEN withMinute - (withMinute % 1440) + cronExpression.hour * 60
                     + (withMinute % 60)
                ELSE withMinute
    IN IF next <= t THEN next + 1440 ELSE next

(***************************************************************************)
(* The environment: what the operating system, the peer and the remote     *)
(* endpoint can answer                                                     *)
(***************************************************************************)
\* results of findProcess
Processes ==
    {NULL, [pid |-> 4711, extensionPort |-> 42100, csrfToken |-> "3f2a-11"]}
\* results of getListeningPorts: de-duplicated, ascending
PortLists == {<<>>, <<42001>>, <<42002>>, <<42001, 42002>>}
\* the sets of ports that answer the probe
ProbeAnswers == SUBSET {42001, 42002}

\* what connect() can end with: no connection, or the process with the
\* first port that answered the probe
Connections ==
    {connect(basicInfo, ports, okPorts) :
        basicInfo \in Processes, ports \in PortLists, okPorts \in ProbeAnswers}

GPT == <<"G", "P", "T">>
\* parsed bodies of the peer's replies to GetUserStatus
PeerBodies ==
    {[json |-> "object",
      models |-> <<[label |-> GPT, model |-> <<>>,
                    quotaInfo |-> [remainingFraction |-> 5, resetTime |-> None]]>>],
     [json |-> "object",
      models |-> <<[label |-> GPT, model |-> <<"m", "1">>,
                    quotaInfo |-> [remainingFraction |-> 50, resetTime |-> 2]],
                   [label |-> <<>>, model |-> <<"m", "2">>, quotaInfo |-> NULL]>>]}
\* the body of an error reply: JSON without userStatus
ErrorBody == [json |-> "object", models |-> <<>>]
\* replies of the peer to the data request
PeerReplies ==
    {[kind |-> "error"], [kind |-> "timeout"]}
    \cup {[kind |-> "reply", status |-> 200, body |-> b] :
             b \in PeerBodies \cup {BadJson, NullJson}}
    \cup {[kind |-> "reply", status |-> 403, body |-> ErrorBody]}

\* bodies of the remote endpoint: a JSON array of loosely-typed items
RemoteBodies ==
    {[json |-> "array",
      items |-> <<[id |-> <<"r", "1">>, name |-> <<>>, poolId |-> "",
                   remaining |-> 20, capacity |-> None, resetTime |-> None]>>]}
\* what fetch(remoteUrl) settles to when its signal is not aborted
RemoteReplies ==
    {[kind |-> "error"], [kind |-> "response", ok |-> FALSE, body |-> NotArray]}
    \cup {[kind |-> "response", ok |-> TRUE, body |-> b] :
             b \in RemoteBodies \cup {NotArray}}

\* the listeners whose callback raises when it is called
Throwing == {l \in ListenerIds : l % 2 = 1}

\* values of the refreshInterval setting
IntervalChoices == {5, 120, 10000}

\* arguments of calculateStatus: percentages below, within and above
\* 0..100, and thresholds with 0 <= critical <= warning <= 100
Percents == (0 - 2)..102
ThresholdLevels == {0, 10, 30, 100}
StatusThresholds ==
    {t \in [warning : ThresholdLevels, critical : ThresholdLevels] :
        t.critical <= t.warning}
StatusCalls ==
    {[fn |-> "calculateStatus", percentRemaining |-> q, thresholds |-> t,
      returned |-> FALSE, result |-> "none"] :
        q \in Percents, t \in StatusThresholds}

\* arguments of parseResponse: a reply with one model whose
\* remainingFraction is k/100, and the thresholds the client holds
Hundredths == 0..100
ParseThresholds == ThresholdChoices \cup {[warning |-> 28, critical |-> 14]}
ParseCalls ==
    {[fn |-> "parseResponse",
      data |-> [json |-> "object",
                models |-> <<[label |-> GPT, model |-> <<>>,
                              quotaInfo |-> [remainingFraction |-> k,
                                             resetTime |-> None]]>>],
      thresholds |-> t, returned |-> FALSE, result |-> <<>>] :
        k \in Hundredths, t \in ParseThresholds}

\* the calls of fetchQuota() on a client that holds a connection, by the
\* reply of the peer to the data request; one more reply lists a model
\* whose quotaInfo has no remainingFraction between two models without
\* quotaInfo
QuotaCalls ==
    LET sparse == [json |-> "object",
                   models |-> <<[label |-> GPT, model |-> <<"m", "0">>, quotaInfo |-> NULL],
                                [label |-> GPT, model |-> <<"m", "1">>,
                                 quotaInfo |-> [remainingFraction |-> None,
                                                resetTime |-> None]],
                                [label |-> <<>>, model |-> <<>>, quotaInfo |-> NULL]>>]
        held == connect([pid |-> 4711, extensionPort |-> 42100, csrfToken |-> "3f2a-11"],
                        <<42001>>, {42001})
    IN {[fn |-> "fetchQuota", reply |-> reply, thresholds |-> t, held |-> held,
         returned |-> FALSE, result |-> NULL, after |-> held] :
            reply \in PeerReplies \cup {[kind |-> "reply", status |-> 200, body |-> sparse]},
            t \in ThresholdChoices}

\* arguments of inferPoolId: labels made of up to MaxWords words, among
\* them the keywords in mixed case, a prefix of a keyword, a blank, a digit
WordClaude == <<"C", "l", "a", "u", "d", "e">>
WordGemini == <<"G", "e", "M", "i", "N", "i">>
WordPro == <<"P", "r", "o">>
WordFlash == <<"F", "L", "A", "S", "H">>
WordGpt == <<"g", "p", "t">>
Words == {WordClaude, WordGemini, WordPro, WordFlash, WordGpt, GPT,
          <<"G", "e", "m">>, <<" ">>, <<"3">>}
RECURSIVE Concat(_)
Concat(ws) == IF ws = <<>> THEN <<>> ELSE Head(ws) \o Concat(Tail(ws))
PoolCalls ==
    {[fn |-> "inferPoolId", words |-> ws, label |-> Concat(ws),
      returned |-> FALSE, result |-> "none"] :
        ws \in UNION {[1..n -> Words] : n \in 0..MaxWords}}

\* arguments of groupByPool: lists of up to MaxRecords records over three
\* pools, whose names are B, A and A C, and the five statuses; record i of
\* a list has the modelId i.  The amounts and the reset time go with the
\* status, as createQuotaInfo classifies them under the default thresholds
GroupPools == {<<"b">>, <<"a", "-", "P", "O", "O", "L">>, <<"a", "-", "c">>}
GroupShapes ==
    {[status |-> "exhausted", remaining |-> 0, capacity |-> 0, resetTime |-> None],
     [status |-> "critical", remaining |-> 5, capacity |-> 50, resetTime |-> 2],
     [status |-> "warning", remaining |-> 14, capacity |-> 100, resetTime |-> 1],
     [status |-> "healthy", remaining |-> 49, capacity |-> 50, resetTime |-> None],
     [status |-> "unknown", remaining |-> 0, capacity |-> 100, resetTime |-> 3]}
GroupCalls ==
    LET kinds == {k \in [poolId : GroupPools, shape : GroupShapes] :
                     k.poolId = <<"a", "-", "c">> => k.shape.status = "healthy"}
        record(i, k) == [modelId |-> i, poolId |-> k.poolId, status |-> k.shape.status,
                         remaining |-> k.shape.remaining, capacity |-> k.shape.capacity,
                         resetTime |-> k.shape.resetTime]
    IN {[fn |-> "groupByPool",
         quotas |-> [i \in 1..Len(ks) |-> record(i, ks[i])],
         thresholds |-> DefaultThresholds,
         returned |-> FALSE, result |-> <<>>,
         flattened |-> FALSE, flat |-> <<>>,
         repeated |-> FALSE, again |-> <<>>,
         touched |-> FALSE] :
            ks \in UNION {[1..m -> kinds] : m \in 0..MaxRecords}}

\* the calls of fetchQuota() on a client that holds no connection, by what
\* the platform answers to connect(): the platform, the candidate processes
\* in the order of the listing (the language server of Antigravity; the
\* one of another editor; an owned one by its path, without a port
\* parameter, whose token is followed by other characters; an owned one
\* with a token that is not hexadecimal; an owned one without a token
\* parameter), the ports the tool reported and the ports that answer the
\* probe
DiscoverCalls ==
    LET line(appDataDir, inPath, tokenParam, token, port) ==
            [appDataDir |-> appDataDir, inPath |-> inPath,
             tokenParam |-> tokenParam, token |-> token, port |-> port]
        lines == {line("antigravity", FALSE, TRUE, <<"3", "f", "2", "a">>, 42100),
                  line("codeium", FALSE, TRUE, <<"9", "c", "-", "1">>, 42200),
                  line("", TRUE, TRUE, <<"A", "b", "-", "x">>, None),
                  line("antigravity", FALSE, TRUE, <<"x", "y">>, 42300),
                  line("antigravity", TRUE, FALSE, <<>>, 42400)}
        candidate(i, l) ==
            [pid |-> 4710 + i, appDataDir |-> l.appDataDir, inPath |-> l.inPath,
             tokenParam |-> l.tokenParam, token |-> l.token, port |-> l.port]
    IN {[fn |-> "connect",
         platform |-> platform,
         procs |-> [i \in 1..Len(ls) |-> candidate(i, ls[i])],
         raw |-> raw,
         okPorts |-> okPorts,
         returned |-> FALSE, result |-> NULL] :
            platform \in {"win32", "darwin", "linux"},
            ls \in UNION {[1..m -> lines] : m \in 0..MaxProcesses},
            raw \in {<<>>, <<42002>>, <<42002, 42001, 42002>>,
                     <<42003, 42001, 42003, 42002>>},
            okPorts \in SUBSET {42001, 42002, 42003}}

\* the model ids of the results the listeners are told, and the results:
\* one record, or one for each model id, of any status
NotifiedModels == {"m1", "m2"}
NotifiedResults ==
    LET Status == {"healthy", "warning", "critical", "exhausted", "unknown"}
    IN {[success |-> ok, quotas |-> quotas] :
            ok \in BOOLEAN,
            quotas \in {<<[modelId |-> "m1", status |-> a]>> : a \in Status}
                       \cup {<<[modelId |-> "m1", status |-> a],
                                [modelId |-> "m2", status |-> b]>> :
                                  a \in Status, b \in {"healthy", "critical"}}}

\* the calls of storeAccountCredentials and deleteAccountCredentials
AccountOps == 1..MaxOps

(***************************************************************************)
(* State                                                                   *)
(***************************************************************************)
VARIABLES
    \* vscode.workspace.getConfiguration('antigravityStats'):
    \* [refreshInterval, thresholds]
    vsConfig,
    \* PollingManager
    timer,              \* None, or the handle of the timer start() armed
    intervalSeconds,
    listeners,          \* the Set of listeners, in insertion order
    isPaused,
    lastPollTime,
    \* the event loop: the setInterval timers that are armed, each with its
    \* handle (id) and its period in seconds
    intervals,
    \* QuotaFetcher
    config,             \* [remoteUrl, thresholds]; remoteUrl is TRUE when set
    lastFetchResult,
    abortController,    \* None, or the cycle whose fetch() created it
    \* AntigravityClient
    processInfo,
    thresholds,
    \* the clock: Date.now(); it advances when a cycle starts
    now,
    \* the calls of poll() by position: cycle[c].pc is "idle" (not started),
    \* "connecting", "request", "remote" (awaiting that I/O) or "done"
    cycle,
    \* observation: the call of poll() that returned in the last step (NULL
    \* when none did), and the connections on which a data request failed,
    \* as far as they are still held or used by a request in flight
    ret,
    dropped,
    \* a helper function applied on its own: its name, its arguments and,
    \* once it has returned, its result (NULL when none is)
    call,
    \* QuotaGrouper
    customGroupNames,
    \* NotificationManager: the Map of notification states by model id
    \* (NULL where the Map has no entry)
    notificationStates,
    \* SchedulerManager: the task (NULL when none), and the wall clock in
    \* minutes since midnight of the first day
    currentTask,
    clock,
    \* CredentialManager: the account list kept in the secret storage (the
    \* account ids in order), and the calls of storeAccountCredentials and
    \* deleteAccountCredentials by position
    secretStorage,
    accountOps

vars == <<vsConfig, timer, intervalSeconds, listeners, isPaused, lastPollTime,
          intervals,
          config, lastFetchResult, abortController, processInfo, thresholds,
          now, cycle, ret, dropped, call, customGroupNames,
          notificationStates, currentTask, clock, secretStorage, accountOps>>

\* the state of the features that the fetch cycle does not touch
services == <<notificationStates, currentTask, clock, secretStorage, accountOps>>

\* everything but the helper applied on its own
objects == <<vsConfig, timer, intervalSeconds, listeners, isPaused, lastPollTime,
             intervals,
             config, lastFetchResult, abortController, processInfo, thresholds,
             now, cycle, ret, dropped>>

schedVars == <<timer, intervals, intervalSeconds, listeners, isPaused>>
\* no call of poll() returns in this step
noReturn == ret' = NULL /\ UNCHANGED <<call, customGroupNames, services>>

\* an operation that returns at once and changes nothing
noOp ==
    /\ noReturn
    /\ UNCHANGED <<vsConfig, timer, intervals, intervalSeconds, listeners, isPaused,
                   lastPollTime, config, lastFetchResult, abortController,
                   processInfo, thresholds, now, cycle, dropped>>


Idle == [pc |-> "idle"]
Done == [pc |-> "done"]

InFlight == {c \in Cycles : cycle[c].pc \in {"connecting", "request", "remote"}}

\* the three singletons after construction, with the refreshInterval
\* setting the user has
Constructed(refreshInterval) ==
    /\ vsConfig = [refreshInterval |-> refreshInterval,
                   thresholds |-> DefaultThresholds]
    /\ timer = None
    /\ intervals = {}
    /\ intervalSeconds = 120
    /\ listeners = <<>>
    /\ isPaused = FALSE
    /\ lastPollTime = None
    /\ config = [remoteUrl |-> FALSE, thresholds |-> DefaultThresholds]
    /\ lastFetchResult = NULL
    /\ abortController = None
    /\ processInfo = NULL
    /\ thresholds = DefaultThresholds
    /\ now = 0
    /\ cycle = [c \in Cycles |-> Idle]
    /\ ret = NULL
    /\ dropped = {}
    /\ customGroupNames = [p \in GroupPools |-> "undefined"]
    /\ notificationStates = [m \in NotifiedModels |-> NULL]
    /\ currentTask = NULL
    /\ clock = 0
    /\ secretStorage = <<>>
    /\ accountOps = [o \in AccountOps |-> [pc |-> "idle"]]

\* the state after construction: no helper is applied on its own
InitConfigured(refreshInterval) == Constructed(refreshInterval) /\ call = NULL

\* the state after construction with the default settings
Init == InitConfigured(120)

(***************************************************************************)
(* One fetch cycle                                                         *)
(***************************************************************************)
\* unchanged by the steps that end an I/O wait of a cycle
cycleFrame == <<vsConfig, timer, intervals, intervalSeconds, listeners, isPaused,
                lastPollTime, config, abortController, now>>

Range(f) == {f[i] : i \in DOMAIN f}

\* QuotaFetcher.abort as seen by the cycle cy: controller.abort() cancels
\* the remote request that holds the controller's signal
abort(cy, controller) ==
    IF cy.pc = "remote" /\ controller # None /\ cy.signal = controller
    THEN [cy EXCEPT !.aborted = TRUE]
    ELSE cy

\* PollingManager.poll up to its first I/O wait: lastPollTime; in fetch()
\* updateThresholdsFromConfig, abort(), the new AbortController; in
\* fetchLocal() setThresholds; in fetchQuota() either connect() (no
\* connection held) or request() with the held port and token.  The frame
\* of the cycle remembers, as history, which listeners were registered when
\* poll() was called and which thresholds updateThresholdsFromConfig read
beginCycle(c, how) ==
    /\ c = now + 1
    /\ c \in Cycles
    /\ Cardinality(InFlight) < MaxInFlight
    /\ now' = now + 1
    /\ lastPollTime' = now + 1
    /\ config' = [config EXCEPT !.thresholds = vsConfig.thresholds]
    /\ abortController' = c
    /\ thresholds' = vsConfig.thresholds
    /\ cycle' = [d \in Cycles |->
                    IF d # c THEN abort(cycle[d], abortController)
                    ELSE IF processInfo = NULL
                         THEN [pc |-> "connecting", trigger |-> how,
                               registered |-> listeners,
                               read |-> vsConfig.thresholds]
                         ELSE [pc |-> "request", trigger |-> how,
                               registered |-> listeners,
                               read |-> vsConfig.thresholds,
                               options |-> processInfo]]
    /\ UNCHANGED <<lastFetchResult, processInfo, dropped>>

\* a call of poll() by the scheduler or a client of pollNow()
pollBegin(c, how) == beginCycle(c, how) /\ noReturn

\* fetch() settles and poll() resumes: `inner` is how the inner try of
\* fetch() ended (the result of fetchLocal, fetchRemote or getMockData, or
\* the error raised by fetchRemote); then lastFetchResult = result or the
\* catch block, then the listeners, then poll() returns.  local and remote
\* record where the data came from: local is "ok", "nopeer" (discovery
\* failed) or "failed" (the data request failed); remote is "unset" (no
\* remote request made), "ok", "failed" or "aborted"; hadCache tells
\* whether a previous result was stored when fetch() settled
fetchSettles(c, inner, local, remote) ==
    LET fetched == IF inner.kind = "returned" THEN inner
                   ELSE fetchCatch(inner.value, lastFetchResult, now)
        ended == poll(fetched, listeners, Throwing, now)
    IN /\ lastFetchResult' = IF inner.kind = "returned" THEN inner.value
                             ELSE lastFetchResult
       /\ UNCHANGED <<call, customGroupNames, services>>
       /\ cycle' = [cycle EXCEPT ![c] = Done]
       /\ ret' = [cycle |-> c,
                  trigger |-> cycle[c].trigger,
                  registered |-> cycle[c].registered,
                  read |-> cycle[c].read,
                  fetch |-> fetched.kind,
                  poll |-> ended.outcome.kind,
                  result |-> IF ended.outcome.kind = "returned"
                             THEN ended.outcome.value ELSE NULL,
                  calls |-> ended.calls,
                  notified |-> listeners,
                  local |-> local,
                  remote |-> remote,
                  hadCache |-> lastFetchResult # NULL]

\* an inner catch that serves a stored result before it tries the remote URL
localFailedCacheFirst(c, local) ==
    IF config.remoteUrl /\ lastFetchResult = NULL
    THEN /\ cycle' = [cycle EXCEPT ![c] =
                        [pc |-> "remote", trigger |-> cycle[c].trigger,
                         registered |-> cycle[c].registered,
                         read |-> cycle[c].read,
                         local |-> local, signal |-> abortController,
                         aborted |-> FALSE]]
         /\ noReturn
         /\ UNCHANGED lastFetchResult
    ELSE IF config.remoteUrl
    THEN fetchSettles(c, Raised("Local fetch failed"), local, "unset")
    ELSE fetchSettles(c, Returned(getMockData(config.thresholds, now)), local, "unset")

\* the catch of the inner try of fetch(), entered when fetchLocal raised:
\* the remote request is issued with the signal of the current controller
\* if a remote URL is set, otherwise the mock data is the result
localFailed(c, local) ==
    IF config.remoteUrl
    THEN /\ cycle' = [cycle EXCEPT ![c] =
                        [pc |-> "remote", trigger |-> cycle[c].trigger,
                         registered |-> cycle[c].registered,
                         read |-> cycle[c].read,
                         local |-> local, signal |-> abortController,
                         aborted |-> FALSE]]
         /\ noReturn
         /\ UNCHANGED lastFetchResult
    ELSE fetchSettles(c, Returned(getMockData(config.thresholds, now)), local, "unset")

\* fetchLocal() after fetchQuota() returned `result`
localSettles(c, result, local) ==
    IF fetchLocal(result).kind = "returned"
    THEN fetchSettles(c, fetchLocal(result), local, "unset")
    ELSE localFailed(c, local)

\* connect() ends: discovery (findProcess, getListeningPorts, the probes)
\* touches no shared state before it stores the connection
ConnectDone(c) ==
    /\ cycle[c].pc = "connecting"
    /\ \E conn \in Connections :
         IF conn = NULL
         THEN /\ localSettles(c, NotConnected(now), "nopeer")
              /\ UNCHANGED <<processInfo, thresholds>>
         ELSE /\ processInfo' = [conn |-> conn, discoveredBy |-> c]
              /\ cycle' = [cycle EXCEPT ![c] =
                             [pc |-> "request", trigger |-> cycle[c].trigger,
                              registered |-> cycle[c].registered,
                              read |-> cycle[c].read,
                              options |-> [conn |-> conn, discoveredBy |-> c]]]
              /\ noReturn
              /\ UNCHANGED <<lastFetchResult, thresholds>>
    /\ UNCHANGED <<cycleFrame, dropped>>

\* the connections among ids that the next state holds or uses in a request
inUse(ids) ==
    {g \in ids :
        \/ processInfo' # NULL /\ processInfo'.discoveredBy = g
        \/ \E d \in Cycles : cycle'[d].pc = "request" /\ cycle'[d].options.discoveredBy = g}

\* a fetchQuota whose catch keeps the connection
heldKept(result, held) == held

\* the connection held after the data request settled: the catch of
\* fetchQuota clears it
heldAfter(result, held) == IF result.success THEN held ELSE NULL

\* the data request settles
RequestDone(c) ==
    /\ cycle[c].pc = "request"
    /\ \E reply \in PeerReplies :
         LET result == fetchQuotaResult(reply, thresholds, now) IN
         /\ processInfo' = heldAfter(result, processInfo)
         /\ localSettles(c, result, IF result.success THEN "ok" ELSE "failed")
         /\ dropped' = inUse(IF result.success THEN dropped
                              ELSE dropped \cup {cycle[c].options.discoveredBy})
    /\ UNCHANGED <<cycleFrame, thresholds>>

\* the remote request settles: with an abort if its signal was aborted
RemoteDone(c) ==
    /\ cycle[c].pc = "remote"
    /\ \E reply \in (IF cycle[c].aborted THEN {[kind |-> "aborted"]} ELSE RemoteReplies) :
         LET inner == fetchRemote(reply, config.thresholds, now) IN
         fetchSettles(c, inner, cycle[c].local,
                      IF inner.kind = "returned" THEN "ok"
                      ELSE IF reply.kind = "aborted" THEN "aborted" ELSE "failed")
    /\ UNCHANGED <<cycleFrame, processInfo, thresholds, dropped>>

(***************************************************************************)
(* Operations of the scheduler, the fetcher and the configuration          *)
(***************************************************************************)
\* a timer-driven cycle is skipped while the scheduler is paused
tickAlways(paused) == FALSE

\* the test of the setInterval callback: if (!this.isPaused)
tickSkipped(paused) == paused

\* the setInterval callback of an armed timer: poll() unless paused
TimerTick ==
    /\ intervals # {}
    /\ IF tickSkipped(isPaused) THEN noOp
       ELSE pollBegin(now + 1, "timer") /\ UNCHANGED <<vsConfig, schedVars>>

\* the timer handle and the armed timers
sched == [timer |-> timer, intervals |-> intervals]

\* a stop() that forgets the handle and leaves the timer armed
stopForgets(s) == [s EXCEPT !.timer = None]

\* PollingManager.stop on the handle and the armed timers: clearInterval
\* disarms the timer of the handle
stop(s) ==
    IF s.timer # None
    THEN [timer |-> None, intervals |-> {i \in s.intervals : i.id # s.timer}]
    ELSE s

\* a start() with no test of the handle
neverRunning(t) == FALSE

\* PollingManager.isRunning, and the guard of start(): if (this.timer)
isRunning(t) == t # None

\* the body of start() past its guard, from the handle and timers s:
\* updateIntervalFromConfig, the immediate poll(), setInterval.  The handle
\* of the new timer is the number of the cycle that start() began
startTimer(how, s) ==
    /\ intervalSeconds' = clampInterval(vsConfig'.refreshInterval)
    /\ pollBegin(now + 1, how)
    /\ timer' = now + 1
    /\ intervals' = s.intervals \cup
                       {[id |-> now + 1,
                         period |-> clampInterval(vsConfig'.refreshInterval)]}
    /\ UNCHANGED <<listeners, isPaused>>

\* PollingManager.start: a no-op when the timer is armed
Start ==
    IF isRunning(timer) THEN noOp
    ELSE UNCHANGED vsConfig /\ startTimer("start", sched)

\* PollingManager.stop
Stop ==
    /\ timer' = stop(sched).timer
    /\ intervals' = stop(sched).intervals
    /\ noReturn
    /\ UNCHANGED <<vsConfig, intervalSeconds, listeners, isPaused, lastPollTime,
                   config, lastFetchResult, abortController, processInfo,
                   thresholds, now, cycle, dropped>>

\* PollingManager.restart: stop() then start(), whose guard then passes
Restart ==
    IF isRunning(stop(sched).timer) THEN noOp
    ELSE UNCHANGED vsConfig /\ startTimer("restart", stop(sched))

\* a pollNow() that re-arms the timer like restart()
PollNowRearms == UNCHANGED vsConfig /\ startTimer("pollNow", stop(sched))

\* PollingManager.pollNow
PollNow ==
    /\ pollBegin(now + 1, "pollNow")
    /\ UNCHANGED <<vsConfig, schedVars>>

\* the refreshInterval setting changes; the onDidChangeConfiguration
\* handler of the constructor runs updateIntervalFromConfig and restart()
ConfigChangeInterval ==
    \E v \in IntervalChoices \ {vsConfig.refreshInterval} :
        /\ vsConfig' = [vsConfig EXCEPT !.refreshInterval = v]
        /\ IF isRunning(stop(sched).timer)
           THEN /\ intervalSeconds' = clampInterval(v)
                /\ noReturn
                /\ UNCHANGED <<timer, intervals, listeners, isPaused, lastPollTime,
                               config, lastFetchResult, abortController,
                               processInfo, thresholds, now, cycle, dropped>>
           ELSE startTimer("configChange", stop(sched))

\* the warningThreshold / criticalThreshold settings change
ConfigChangeThresholds ==
    \E v \in ThresholdChoices \ {vsConfig.thresholds} :
        /\ vsConfig' = [vsConfig EXCEPT !.thresholds = v]
        /\ noReturn
        /\ UNCHANGED <<schedVars, lastPollTime, config, lastFetchResult,
                       abortController, processInfo, thresholds, now, cycle,
                       dropped>>

\* QuotaFetcher.configure({ remoteUrl })
Configure ==
    \E url \in BOOLEAN \ {config.remoteUrl} :
        /\ config' = [config EXCEPT !.remoteUrl = url]
        /\ noReturn
        /\ UNCHANGED <<vsConfig, schedVars, lastPollTime, lastFetchResult,
                       abortController, processInfo, thresholds, now, cycle,
                       dropped>>

\* PollingManager.pause
Pause ==
    /\ isPaused' = TRUE
    /\ noReturn
    /\ UNCHANGED <<vsConfig, timer, intervals, intervalSeconds, listeners, lastPollTime,
                   config, lastFetchResult, abortController, processInfo,
                   thresholds, now, cycle, dropped>>

\* PollingManager.resume
Resume ==
    /\ isPaused' = FALSE
    /\ noReturn
    /\ UNCHANGED <<vsConfig, timer, intervals, intervalSeconds, listeners, lastPollTime,
                   config, lastFetchResult, abortController, processInfo,
                   thresholds, now, cycle, dropped>>

\* Set.add keeps the first insertion of a member
setAdd(ls, l) == IF l \in Range(ls) THEN ls ELSE Append(ls, l)
\* Set.delete
setDelete(ls, l) == SelectSeq(ls, LAMBDA x : x # l)

\* PollingManager.addListener
AddListener(l) ==
    /\ listeners' = setAdd(listeners, l)
    /\ noReturn
    /\ UNCHANGED <<vsConfig, timer, intervals, intervalSeconds, isPaused, lastPollTime,
                   config, lastFetchResult, abortController, processInfo,
                   thresholds, now, cycle, dropped>>

\* PollingManager.removeListener
RemoveListener(l) ==
    /\ listeners' = setDelete(listeners, l)
    /\ noReturn
    /\ UNCHANGED <<vsConfig, timer, intervals, intervalSeconds, isPaused, lastPollTime,
                   config, lastFetchResult, abortController, processInfo,
                   thresholds, now, cycle, dropped>>

\* QuotaHelpers.calculateStatus applied to an integer percentage
CalculateStatus ==
    /\ call # NULL /\ call.fn = "calculateStatus" /\ ~call.returned
    /\ call' = [call EXCEPT
                   !.returned = TRUE,
                   !.result = calculateStatus(Number(call.percentRemaining),
                                              call.thresholds)]
    /\ UNCHANGED <<objects, customGroupNames, services>>

\* AntigravityClient.parseResponse applied to a reply of the peer
ParseResponse ==
    /\ call # NULL /\ call.fn = "parseResponse" /\ ~call.returned
    /\ call' = [call EXCEPT
                   !.returned = TRUE,
                   !.result = parseResponse(call.data, call.thresholds, now)]
    /\ UNCHANGED <<objects, customGroupNames, services>>

\* AntigravityClient.fetchQuota from the reply to its data request on: its
\* result and the connection the client holds afterwards
FetchQuotaSettles ==
    /\ call # NULL /\ call.fn = "fetchQuota" /\ ~call.returned
    /\ LET result == fetchQuotaResult(call.reply, call.thresholds, now)
       IN call' = [call EXCEPT !.returned = TRUE,
                               !.result = result,
                               !.after = heldAfter(result, call.held)]
    /\ UNCHANGED <<objects, customGroupNames, services>>

\* AntigravityClient.inferPoolId applied to a label
InferPoolId ==
    /\ call # NULL /\ call.fn = "inferPoolId" /\ ~call.returned
    /\ call' = [call EXCEPT !.returned = TRUE, !.result = inferPoolId(call.label)]
    /\ UNCHANGED <<objects, customGroupNames, services>>

\* a groupByPool that remembers the name it generated as the custom name
GroupByPoolNaming ==
    /\ call # NULL /\ call.fn = "groupByPool" /\ ~call.repeated
    /\ call.returned => call.flattened
    /\ LET groups == groupByPool(call.quotas, call.thresholds, customGroupNames)
       IN /\ call' = IF call.returned
                      THEN [call EXCEPT !.repeated = TRUE, !.again = groups]
                      ELSE [call EXCEPT !.returned = TRUE, !.result = groups]
          /\ customGroupNames' =
                [p \in GroupPools |->
                    IF \E i \in 1..Len(groups) : groups[i].poolId = p
                    THEN "generated" ELSE customGroupNames[p]]
    /\ UNCHANGED <<objects, services>>

\* AntigravityClient.fetchQuota on a client that holds no connection, up to
\* the data request: connect() runs findProcess, getListeningPorts and
\* findWorkingPort, each once and in this order, and returns at the first
\* that yields nothing; fetchQuota then returns NotConnected, and issues
\* the data request otherwise.  The result records what findProcess
\* returned, the connection that is held, the steps that ran, the list of ports, the calls of testPort in
\* order, the number of data requests and what fetchQuota returned (NULL
\* while the request is in flight)
FetchQuotaConnects ==
    /\ call.fn = "connect"
    /\ ~call.returned
    /\ LET basicInfo == findProcess(call.platform, call.procs)
           ports == IF basicInfo = NULL THEN <<>> ELSE getListeningPorts(call.raw)
           RECURSIVE probed(_)
           probed(rest) ==
               IF rest = <<>> THEN <<>>
               ELSE IF Head(rest) \in call.okPorts THEN <<Head(rest)>>
                    ELSE <<Head(rest)>> \o probed(Tail(rest))
           info == connect(basicInfo, ports, call.okPorts)
       IN call' = [call EXCEPT
                     !.returned = TRUE,
                     !.result =
                        [basicInfo |-> basicInfo,
                         processInfo |-> info,
                         steps |-> IF basicInfo = NULL THEN <<"findProcess">>
                                   ELSE IF Len(ports) = 0
                                   THEN <<"findProcess", "getListeningPorts">>
                                   ELSE <<"findProcess", "getListeningPorts",
                                          "findWorkingPort">>,
                         ports |-> ports,
                         probes |-> probed(ports),
                         requests |-> IF info = NULL THEN 0 ELSE 1,
                         fetched |-> IF info = NULL THEN NotConnected(now) ELSE NULL]]
    /\ UNCHANGED <<objects, customGroupNames, services>>

\* QuotaGrouper.groupByPool, called once and, after its groups have been
\* flattened, once more with the same arguments
GroupByPool ==
    /\ call # NULL /\ call.fn = "groupByPool" /\ ~call.repeated
    /\ call.returned => call.flattened
    /\ LET groups == groupByPool(call.quotas, call.thresholds, customGroupNames)
       IN call' = IF call.returned
                  THEN [call EXCEPT !.repeated = TRUE, !.again = groups]
                  ELSE [call EXCEPT !.returned = TRUE, !.result = groups]
    /\ UNCHANGED <<objects, customGroupNames, services>>

\* QuotaGrouper.flattenGroups applied to the groups of the first call
FlattenGroups ==
    /\ call # NULL /\ call.fn = "groupByPool"
    /\ call.returned /\ ~call.flattened
    /\ call' = [call EXCEPT !.flattened = TRUE, !.flat = flattenGroups(call.result)]
    /\ UNCHANGED <<objects, customGroupNames, services>>

\* a setter of the custom names ran between the two calls of groupByPool
touch == IF call # NULL /\ call.fn = "groupByPool" /\ call.returned /\ ~call.repeated
         THEN [call EXCEPT !.touched = TRUE] ELSE call

\* QuotaGrouper.setCustomGroupName
SetCustomGroupName(poolId, name) ==
    /\ customGroupNames' = [customGroupNames EXCEPT ![poolId] = name]
    /\ call' = touch
    /\ UNCHANGED <<objects, services>>

\* QuotaGrouper.clearCustomNames
ClearCustomNames ==
    /\ customGroupNames' = [p \in GroupPools |-> "undefined"]
    /\ call' = touch
    /\ UNCHANGED <<objects, services>>

\* the listener NotificationManager registered is called with a result;
\* enabled is the notificationsEnabled setting.  The call records the
\* notifications shown
OnQuotaUpdate(result, enabled) ==
    /\ LET told == IF ~result.success \/ ~enabled
                   THEN [states |-> notificationStates, shown |-> <<>>]
                   ELSE onQuotaUpdate(result.quotas, notificationStates, <<>>, clock)
       IN /\ notificationStates' = told.states
          /\ call' = [fn |-> "onQuotaUpdate", result |-> result, enabled |-> enabled,
                      at |-> clock, shown |-> told.shown]
    /\ UNCHANGED <<objects, customGroupNames, currentTask, clock, secretStorage,
                   accountOps>>

\* NotificationManager.clearState
ClearState(modelId) ==
    /\ notificationStates' = [notificationStates EXCEPT ![modelId] = NULL]
    /\ call' = [fn |-> "clearState", modelId |-> modelId]
    /\ UNCHANGED <<objects, customGroupNames, currentTask, clock, secretStorage,
                   accountOps>>

\* SchedulerManager.initialize with the schedule 'Every hour' configured:
\* loadFromConfig creates the task and startChecking arms the timer of one
\* minute
Initialize ==
    /\ currentTask = NULL
    /\ currentTask' = [cronExpression |-> EveryHour, enabled |-> TRUE,
                       lastRun |-> None,
                       nextRun |-> getNextRunTime(EveryHour, clock)]
    /\ UNCHANGED <<objects, call, customGroupNames, notificationStates, clock,
                   secretStorage, accountOps>>

\* the timer of the scheduler fires a minute later and runs check(): when
\* the task is due, executeTask() calls pollNow(), then lastRun and nextRun
\* are set
Check ==
    /\ currentTask # NULL
    /\ clock < MaxMinutes
    /\ clock' = clock + 1
    /\ IF currentTask.enabled /\ clock + 1 >= currentTask.nextRun
       THEN /\ beginCycle(now + 1, "pollNow")
            /\ currentTask' = [currentTask EXCEPT
                                  !.lastRun = clock + 1,
                                  !.nextRun = getNextRunTime(currentTask.cronExpression,
                                                             clock + 1)]
            /\ ret' = NULL
            /\ UNCHANGED <<vsConfig, schedVars>>
       ELSE UNCHANGED <<objects, currentTask>>
    /\ UNCHANGED <<call, customGroupNames, notificationStates, secretStorage, accountOps>>

\* CredentialManager.storeAccountCredentials up to its first wait, the
\* secretStorage.get of getAccountCredentials
StoreAccountCredentials(o, accountId) ==
    /\ accountOps[o].pc = "idle"
    /\ accountOps' = [accountOps EXCEPT ![o] =
                         [pc |-> "reading", kind |-> "store", accountId |-> accountId]]
    /\ UNCHANGED <<objects, call, customGroupNames, notificationStates, currentTask,
                   clock, secretStorage>>

\* CredentialManager.deleteAccountCredentials up to the same wait
DeleteAccountCredentials(o, accountId) ==
    /\ accountOps[o].pc = "idle"
    /\ accountOps' = [accountOps EXCEPT ![o] =
                         [pc |-> "reading", kind |-> "delete", accountId |-> accountId]]
    /\ UNCHANGED <<objects, call, customGroupNames, notificationStates, currentTask,
                   clock, secretStorage>>

\* secretStorage.get resolves with the stored list: the call filters out
\* its account id, a store pushes it at the end, and secretStorage.store is
\* called with the updated list
Retrieved(o) ==
    /\ accountOps[o].pc = "reading"
    /\ LET other(id) == id # accountOps[o].accountId
           filtered == SelectSeq(secretStorage, other)
       IN accountOps' = [accountOps EXCEPT ![o] =
                            [pc |-> "writing", kind |-> accountOps[o].kind,
                             accountId |-> accountOps[o].accountId,
                             updated |-> IF accountOps[o].kind = "store"
                                         THEN Append(filtered, accountOps[o].accountId)
                                         ELSE filtered]]
    /\ UNCHANGED <<objects, call, customGroupNames, notificationStates, currentTask,
                   clock, secretStorage>>

\* secretStorage.store resolves: the updated list is the stored one and the
\* call returns
Stored(o) ==
    /\ accountOps[o].pc = "writing"
    /\ secretStorage' = accountOps[o].updated
    /\ accountOps' = [accountOps EXCEPT ![o] =
                         [pc |-> "done", kind |-> accountOps[o].kind,
                          accountId |-> accountOps[o].accountId]]
    /\ UNCHANGED <<objects, call, customGroupNames, notificationStates, currentTask,
                   clock>>

\* a minute passes
Elapse ==
    /\ clock < MaxElapsed
    /\ clock' = clock + 1
    /\ UNCHANGED <<objects, call, customGroupNames, notificationStates, currentTask,
                   secretStorage, accountOps>>

(***************************************************************************)
(* Specifications                                                          *)
(***************************************************************************)
Next ==
    \/ PollNow
    \/ TimerTick
    \/ Start
    \/ Stop
    \/ Restart
    \/ ConfigChangeInterval
    \/ ConfigChangeThresholds
    \/ Configure
    \/ Pause
    \/ Resume
    \/ \E l \in ListenerIds : AddListener(l)
    \/ \E l \in ListenerIds : RemoveListener(l)
    \/ \E c \in Cycles : ConnectDone(c)
    \/ \E c \in Cycles : RequestDone(c)
    \/ \E c \in Cycles : RemoteDone(c)

Spec == Init /\ [][Next]_vars

\* the fetch orchestration alone: cycles started by pollNow(), with a remote
\* URL set or cleared between them
NextFetch ==
    \/ PollNow
    \/ Configure
    \/ \E c \in Cycles : ConnectDone(c)
    \/ \E c \in Cycles : RequestDone(c)
    \/ \E c \in Cycles : RemoteDone(c)

SpecFetch == Init /\ [][NextFetch]_vars

\* the fetch cycles under fair scheduling: the port probes and the peer
\* data request each set a socket timeout (3000 ms and 5000 ms) whose
\* handler rejects, so discovery and the data request always settle; the
\* remote request sets none, so nothing in the code makes it settle
SpecLive ==
    /\ Init /\ [][NextFetch]_vars
    /\ \A c \in Cycles : WF_vars(ConnectDone(c)) /\ WF_vars(RequestDone(c))

\* listeners come and go between cycles that the caller starts one after
\* the other: pollNow() is called when no cycle is in flight
PollNowWhenIdle == InFlight = {} /\ PollNow

NextPoll ==
    \/ PollNowWhenIdle
    \/ Configure
    \/ \E l \in ListenerIds : AddListener(l)
    \/ \E l \in ListenerIds : RemoveListener(l)
    \/ \E c \in Cycles : ConnectDone(c)
    \/ \E c \in Cycles : RequestDone(c)
    \/ \E c \in Cycles : RemoteDone(c)

SpecPoll == Init /\ [][NextPoll]_vars

\* the helper functions, each applied on its own to arguments drawn from
\* the sets above
InitHelpers ==
    Constructed(120) /\ call \in StatusCalls \cup ParseCalls \cup PoolCalls \cup QuotaCalls

NextHelpers ==
    \/ CalculateStatus
    \/ ParseResponse
    \/ InferPoolId
    \/ FetchQuotaSettles

SpecHelpers == InitHelpers /\ [][NextHelpers]_vars

\* the grouper: groupByPool applied to a list of records, its groups
\* flattened, then groupByPool applied again, while the custom name of the
\* pool B is set and, once set, the names are cleared
InitGroup == Constructed(120) /\ call \in GroupCalls

NextGroup ==
    \/ GroupByPool
    \/ FlattenGroups
    \/ SetCustomGroupName(<<"b">>, "Mine")
    \/ (\E p \in GroupPools : customGroupNames[p] # "undefined") /\ ClearCustomNames

SpecGroup == InitGroup /\ [][NextGroup]_vars

\* the scheduler, from any refreshInterval setting: its operations arrive
\* when no cycle is in flight, except stop(), pause(), resume() and the
\* registration of the first listener, which arrive at any time
InitDiscover == Constructed(120) /\ call \in DiscoverCalls
NextDiscover == FetchQuotaConnects
SpecDiscover == InitDiscover /\ [][NextDiscover]_vars

NextThresholds ==
    \/ PollNow
    \/ ConfigChangeThresholds
    \/ \E c \in Cycles : ConnectDone(c)
    \/ \E c \in Cycles : RequestDone(c)

SpecThresholds == Init /\ [][NextThresholds]_vars

\* the notification manager told a sequence of results while time passes
NextNotify ==
    \/ \E result \in NotifiedResults, enabled \in BOOLEAN : OnQuotaUpdate(result, enabled)
    \/ notificationStates["m1"] # NULL /\ ClearState("m1")
    \/ Elapse

SpecNotify == Init /\ [][NextNotify]_vars

\* the auto-wake scheduler, initialized within the first minutes of the day
NextCron ==
    \/ currentTask = NULL /\ Elapse
    \/ Initialize
    \/ Check

SpecCron == Init /\ [][NextCron]_vars

\* the calls that change the stored accounts, overlapping at will
NextAccounts ==
    \/ \E o \in AccountOps, id \in {"a", "b"} : StoreAccountCredentials(o, id)
    \/ \E o \in AccountOps, id \in {"a", "b"} : DeleteAccountCredentials(o, id)
    \/ \E o \in AccountOps : Retrieved(o)
    \/ \E o \in AccountOps : Stored(o)

SpecAccounts == Init /\ [][NextAccounts]_vars

InitTimer == \E v \in IntervalChoices : InitConfigured(v)

NextTimer ==
    \/ InFlight = {} /\ Start
    \/ Stop
    \/ InFlight = {} /\ Restart
    \/ InFlight = {} /\ ConfigChangeInterval
    \/ Pause
    \/ Resume
    \/ InFlight = {} /\ TimerTick
    \/ PollNowWhenIdle
    \/ \E l \in ListenerIds : listeners = <<>> /\ AddListener(l)
    \/ \E c \in Cycles : ConnectDone(c)
    \/ \E c \in Cycles : RequestDone(c)

SpecTimer == InitTimer /\ [][NextTimer]_vars

(***************************************************************************)
(* Properties of the fetch cycle                                           *)
(***************************************************************************)
\* the last step ended a cycle in which neither the peer nor the remote
\* endpoint produced data
NoData == ret # NULL /\ ret.local # "ok" /\ ret.remote # "ok"

\* C1: whatever discovery, the peer's data request and the remote request
\* end with, fetch() and poll() (hence pollNow()) end by returning a
\* FetchResult envelope; neither ends by raising
C1_AlwaysAnEnvelope ==
    ret # NULL =>
        /\ ret.fetch = "returned"
        /\ ret.poll = "returned"
        /\ ret.result.success \in BOOLEAN
        /\ ret.result.source \in {"local", "remote", "cache"}

\* the peer's data request failed, the remote request failed, nothing was
\* stored: the cycle returned the failure envelope
C1_Witness ==
    /\ ret # NULL
    /\ ret.local = "failed" /\ ret.remote = "failed" /\ ~ret.hadCache
    /\ ret.poll = "returned" /\ ~ret.result.success

\* C2: when the local fetch fails and a remote URL is set, fetch() makes the
\* remote request before it turns to the stored result, and when that
\* request succeeds the result has source 'remote' and carries the remote
\* records, also when a result of an earlier cycle is stored
C2_RemoteBeforeCache ==
    ret # NULL /\ ret.local # "ok" =>
        /\ ret.remote = "unset" => ~config.remoteUrl
        /\ ret.remote = "ok" =>
              /\ ret.result.success
              /\ ret.result.source = "remote"
              /\ \E b \in RemoteBodies :
                    /\ Len(ret.result.quotas) = Len(b.items)
                    /\ \A i \in 1..Len(b.items) :
                          /\ ret.result.quotas[i].modelId = b.items[i].id
                          /\ ret.result.quotas[i].remaining = b.items[i].remaining

\* discovery or the data request failed, a result was stored, and the cycle
\* returned the remote records
C2_Witness ==
    /\ ret # NULL
    /\ ret.local # "ok" /\ ret.remote = "ok" /\ ret.hadCache
    /\ ret.result.source = "remote" /\ Len(ret.result.quotas) = 1

\* C3: when discovery fails, no remote URL is set and no result is stored,
\* fetch() returns success=false, no records and source 'cache'
C3_TotalExhaustion ==
    ret # NULL /\ ret.local = "nopeer" /\ ret.remote = "unset" /\ ~ret.hadCache =>
        /\ ~ret.result.success
        /\ ret.result.quotas = <<>>
        /\ ret.result.source = "cache"

\* C4: when the local fetch fails, the remote request fails or no remote URL
\* is set, and a result is stored, fetch() returns the stored records with
\* source 'cache' and the new error message
C4_CachePath ==
    NoData /\ ret.hadCache =>
        /\ ret.result.source = "cache"
        /\ ret.result.error # NoError
        /\ ret.result.quotas = lastFetchResult.quotas

\* C5: every cycle in which neither the peer nor the remote endpoint
\* produced data delivers success=false and a non-empty error, the stored
\* result served under source 'cache' included
C5_FailureIsFlagged ==
    NoData => ~ret.result.success /\ ret.result.error # NoError

\* C6: getLastResult() is the result of the last completed fetch that got
\* its data from the peer or the remote endpoint, replaced as a whole; a
\* fetch that got data from neither leaves the stored result as it was
C6_Snapshot ==
    [][ret' # NULL =>
          lastFetchResult' = IF ret'.local = "ok" \/ ret'.remote = "ok"
                             THEN ret'.result ELSE lastFetchResult]_vars

\* the data request of cycle c fails in this step
RequestFails(c) ==
    /\ cycle[c].pc = "request"
    /\ \/ cycle'[c].pc = "remote"
       \/ cycle'[c].pc = "done" /\ ret'.local = "failed"

\* C7: when the peer's data request fails, the held connection is none when
\* fetchQuota() returns; a cycle that starts with no connection held runs
\* the discovery before any data request; and no data request starts on a
\* connection on which a request has failed
C7_Invalidation ==
    [][\A c \in Cycles :
          /\ RequestFails(c) => processInfo' = NULL
          /\ cycle[c].pc = "idle" /\ cycle'[c].pc # "idle" /\ processInfo = NULL
                => cycle'[c].pc = "connecting"
          /\ cycle[c].pc # "request" /\ cycle'[c].pc = "request"
                => cycle'[c].options.discoveredBy \notin dropped']_vars

\* the data request of one cycle failed on a discovered connection, no
\* connection is held, and the next cycle is running the discovery
C7_Witness ==
    /\ processInfo = NULL
    /\ \E c, d \in Cycles :
          /\ c < d
          /\ cycle[c].pc = "remote" /\ cycle[c].local = "failed"
          /\ cycle[d].pc = "connecting"

\* C8: at most one fetch cycle is in progress at any time
C8_SingleFlight == Cardinality(InFlight) <= 1

\* C9: a fetch in flight when another cycle is triggered is never aborted
C9_NeverAborted ==
    /\ \A c \in Cycles : cycle[c].pc = "remote" => ~cycle[c].aborted
    /\ ret # NULL => ret.remote # "aborted"

\* C10: in every cycle each listener registered when the result is
\* delivered is called exactly once, in registration order, with the result
\* of that cycle, success or failure, also when other listeners raise; and
\* poll() returns that result
C10_EveryListenerOnce ==
    ret # NULL =>
        /\ ret.poll = "returned"
        /\ ret.notified = listeners
        /\ Len(ret.calls) = Len(listeners)
        /\ \A i \in 1..Len(listeners) :
              /\ ret.calls[i].listener = listeners[i]
              /\ ret.calls[i].result = ret.result

\* a failure was delivered to two listeners, the first of which raised
C10_Witness ==
    /\ ret # NULL
    /\ Len(ret.calls) = 2
    /\ ret.calls[1].listener \in Throwing
    /\ ret.calls[2].listener \notin Throwing
    /\ ret.poll = "returned" /\ ~ret.result.success

(***************************************************************************)
(* Properties of the scheduler                                             *)
(***************************************************************************)
\* cycle c starts in this step
Begins(c) == cycle[c].pc = "idle" /\ cycle'[c].pc # "idle"

\* C11: at most one repeating timer is armed, the one of the handle; a
\* start() while running starts no fetch and arms no timer (a timer is armed
\* only in a step that starts a fetch); a start() while stopped, and every
\* restart, starts one fetch and leaves exactly one timer armed, whose
\* period is the configured interval clamped to [10, 3600]
C11_OneTimer ==
    [][/\ Cardinality(intervals') <= 1
       /\ (timer' = None) = (intervals' = {})
       /\ (\A c \in Cycles : ~Begins(c)) => intervals' \subseteq intervals
       /\ \A c \in Cycles :
             Begins(c) /\ cycle'[c].trigger \in {"start", "restart", "configChange"} =>
                /\ cycle'[c].trigger = "start" => timer = None
                /\ \A d \in Cycles \ {c} : ~Begins(d)
                /\ timer' = c
                /\ intervals' =
                      {[id |-> c,
                        period |-> IF vsConfig'.refreshInterval < 10 THEN 10
                                   ELSE IF vsConfig'.refreshInterval > 3600 THEN 3600
                                   ELSE vsConfig'.refreshInterval]}]_vars

\* after a stop(), a start() has begun a fetch and armed the one timer,
\* with the period 10 for the configured interval 5
C11_Witness ==
    \E c \in Cycles :
        /\ c > 1
        /\ cycle[c].pc \in {"connecting", "request"}
        /\ cycle[c].trigger = "start"
        /\ vsConfig.refreshInterval = 5
        /\ timer = c
        /\ intervals = {[id |-> c, period |-> 10]}

\* C12: stop() is idempotent (a second stop(), or a stop() with no timer
\* armed, changes nothing); after stop() isRunning() is false and no timer
\* is armed, so that no timer-driven cycle starts until a start() or a
\* restart arms one
C12_StopIdempotent ==
    [][/\ stop(stop(sched)) = stop(sched)
       /\ sched.timer = None => stop(sched) = sched
       /\ stop(sched).timer = None /\ stop(sched).intervals = {}
       /\ \A c \in Cycles : Begins(c) /\ cycle'[c].trigger = "timer" => timer # None
       /\ intervals = {} /\ intervals' # {} =>
             \E c \in Cycles :
                 Begins(c) /\ cycle'[c].trigger \in {"start", "restart", "configChange"}]_vars

\* stop() was called while the fetch begun by start() is in flight
C12_Witness ==
    /\ timer = None /\ intervals = {}
    /\ \E c \in Cycles :
          cycle[c].pc \in {"connecting", "request"} /\ cycle[c].trigger = "start"

\* C13: pollNow() starts a fetch cycle whether the scheduler is running,
\* stopped or paused; the step leaves the timer, its period, the interval
\* and the pause flag as they were; the cycle delivers its result to every
\* registered listener once, as every cycle does, and returns that result
C13_PollNow ==
    [][/\ now < MaxCycles /\ InFlight = {} => ENABLED PollNow
       /\ \A c \in Cycles :
             Begins(c) /\ cycle'[c].trigger = "pollNow" =>
                /\ timer' = timer /\ intervals' = intervals
                /\ intervalSeconds' = intervalSeconds /\ isPaused' = isPaused
       /\ ret' # NULL =>
             /\ timer' = timer /\ intervals' = intervals
             /\ intervalSeconds' = intervalSeconds /\ isPaused' = isPaused
             /\ ret'.poll = "returned"
             /\ Len(ret'.calls) = Len(listeners)
             /\ \A i \in 1..Len(listeners) :
                   /\ ret'.calls[i].listener = listeners[i]
                   /\ ret'.calls[i].result = ret'.result]_vars

\* a pollNow() made while stopped and paused has delivered its result to a
\* listener and returned it
C13_Witness ==
    /\ ret # NULL /\ ret.trigger = "pollNow" /\ ret.cycle > 1
    /\ timer = None /\ isPaused
    /\ Len(ret.calls) >= 1 /\ ret.calls[1].result = ret.result

\* C14: while paused no timer tick starts a fetch (a tick then changes
\* nothing, so nothing is queued for later); pause() and resume() leave the
\* timer armed; when not paused a tick of the armed timer starts a fetch
C14_PauseGate ==
    [][/\ \A c \in Cycles :
             Begins(c) /\ cycle'[c].trigger = "timer" => ~isPaused /\ intervals # {}
       /\ isPaused' # isPaused =>
             /\ timer' = timer /\ intervals' = intervals
             /\ \A c \in Cycles : ~Begins(c)
       /\ isPaused => ~ENABLED (TimerTick /\ now' # now)
       /\ ~isPaused /\ intervals # {} /\ now < MaxCycles /\ InFlight = {} =>
             ENABLED (TimerTick /\ now' # now)]_vars

\* paused with the timer armed and no cycle in flight: a tick arriving now
\* is skipped
C14_Witness ==
    /\ isPaused /\ timer # None /\ intervals # {}
    /\ InFlight = {} /\ now < MaxCycles


\* a step that reads the refreshInterval setting: start(), restart(), or
\* the handler of a change of the setting
ReadsInterval ==
    \/ vsConfig'.refreshInterval # vsConfig.refreshInterval
    \/ \E c \in Cycles :
          Begins(c) /\ cycle'[c].trigger \in {"start", "restart", "configChange"}

\* C15: getInterval() is always within 10..3600 and is the configured
\* value last read, clamped to that range; the armed timer's period is
\* getInterval(), also after a change of the refreshInterval setting, which
\* cancels the old timer and arms a new one
C15_IntervalClamped ==
    [][/\ intervalSeconds \in 10..3600 /\ intervalSeconds' \in 10..3600
       /\ ReadsInterval =>
             intervalSeconds' = IF vsConfig'.refreshInterval < 10 THEN 10
                                ELSE IF vsConfig'.refreshInterval > 3600 THEN 3600
                                ELSE vsConfig'.refreshInterval
       /\ ~ReadsInterval => intervalSeconds' = intervalSeconds
       /\ \A i \in intervals' : i.period = intervalSeconds'
       /\ vsConfig'.refreshInterval # vsConfig.refreshInterval =>
             /\ intervals' \cap intervals = {}
             /\ Cardinality(intervals') = 1]_vars

\* the setting was changed to 10000 while a timer was armed: the one timer
\* armed now is a new one with the period 3600
C15_Witness ==
    /\ vsConfig.refreshInterval = 10000
    /\ intervalSeconds = 3600
    /\ now > 1
    /\ intervals = {[id |-> now, period |-> 3600]}


\* C16: a listener added while a cycle's fetch is in flight is not invoked
\* with that cycle's result: every call a cycle makes goes to a listener
\* that was registered when the cycle began
C16_NextCycleOnly ==
    ret # NULL =>
        \A i \in 1..Len(ret.calls) : ret.calls[i].listener \in Range(ret.registered)


\* C17: every network attempt is bounded by its own timeout, so under fair
\* scheduling every cycle that was started eventually completes
C17_EveryCycleCompletes ==
    \A c \in Cycles : (cycle[c].pc # "idle") ~> (cycle[c] = Done)


(***************************************************************************)
(* Properties of the helper functions                                      *)
(***************************************************************************)
StatusRank(status) ==
    CASE status = "exhausted" -> 0
      [] status = "critical" -> 1
      [] status = "warning" -> 2
      [] status = "healthy" -> 3
      [] OTHER -> 0 - 1

\* C18: for an integer percentage p and thresholds with
\* 0 <= critical <= warning <= 100, calculateStatus is Exhausted if p <= 0,
\* Critical if 0 < p <= critical, Warning if critical < p <= warning and
\* Healthy otherwise; it is never Unknown, and a larger percentage never
\* gives a worse status
C18_StatusBands ==
    call # NULL /\ call.fn = "calculateStatus" /\ call.returned =>
        LET p == call.percentRemaining
            t == call.thresholds
        IN /\ call.result =
                 IF p <= 0 THEN "exhausted"
                 ELSE IF 0 < p /\ p <= t.critical THEN "critical"
                 ELSE IF t.critical < p /\ p <= t.warning THEN "warning"
                 ELSE "healthy"
           /\ call.result # "unknown"
           /\ \A q \in Percents :
                 q >= p => StatusRank(calculateStatus(Number(q), t))
                              >= StatusRank(call.result)

\* a percentage equal to a positive critical threshold that is below the
\* warning threshold was classified Critical
C18_Witness ==
    /\ call # NULL /\ call.fn = "calculateStatus" /\ call.returned
    /\ call.percentRemaining = call.thresholds.critical
    /\ 0 < call.thresholds.critical
    /\ call.thresholds.critical < call.thresholds.warning
    /\ call.result = "critical"


\* C19: for a model whose remainingFraction is k/100, k in 0..100,
\* parseResponse yields a record with capacity 100, remaining k,
\* percentRemaining k and the status calculateStatus gives for k
C19_HundredthsRecord ==
    call # NULL /\ call.fn = "parseResponse" /\ call.returned =>
        LET k == call.data.models[1].quotaInfo.remainingFraction
            q == call.result[1]
        IN /\ Len(call.result) = 1
           /\ q.capacity = 100
           /\ q.remaining = k
           /\ q.percentRemaining[1] = k * q.percentRemaining[2]
           /\ q.percentRemaining[3] = 0
           /\ q.status = calculateStatus(Number(k), call.thresholds)


\* C20: inferPoolId applies case-insensitive substring rules in order, the
\* first match wins: 'claude' gives claude-pool; 'gemini' with 'pro'
\* gemini-pro-pool; 'gemini' with 'flash' gemini-flash-pool; 'gpt'
\* claude-pool; anything else default-pool
C20_PoolRules ==
    call # NULL /\ call.fn = "inferPoolId" /\ call.returned =>
        LET has(w) == \E i \in 1..Len(call.words) : call.words[i] = w
        IN call.result =
              IF has(WordClaude) THEN "claude-pool"
              ELSE IF has(WordGemini) /\ has(WordPro) THEN "gemini-pro-pool"
              ELSE IF has(WordGemini) /\ has(WordFlash) THEN "gemini-flash-pool"
              ELSE IF has(WordGpt) \/ has(GPT) THEN "claude-pool"
              ELSE "default-pool"

\* a label with Gemini, Flash and Pro, in that order, went to the Gemini
\* Pro pool
C20_Witness ==
    /\ call # NULL /\ call.fn = "inferPoolId" /\ call.returned
    /\ call.words = <<WordGemini, WordFlash, WordPro>>
    /\ call.result = "gemini-pro-pool"


(***************************************************************************)
(* Properties of the grouper                                               *)
(***************************************************************************)
\* groupByPool has returned for the first time
Grouped == call # NULL /\ call.fn = "groupByPool" /\ call.returned

\* C21: groupByPool yields exactly one group per distinct pool id of the
\* input; the members of a group are exactly the input records with its
\* pool id, in input order; flattenGroups gives the members group after
\* group: a permutation of the input, no record lost or duplicated
C21_Partition ==
    Grouped =>
        LET q == call.quotas
            g == call.result
            f == call.flat
            groupOf(r) == CHOOSE i \in 1..Len(g) : g[i].poolId = r.poolId
        IN /\ {g[i].poolId : i \in 1..Len(g)} = {q[j].poolId : j \in 1..Len(q)}
           /\ \A i, k \in 1..Len(g) : g[i].poolId = g[k].poolId => i = k
           /\ \A i \in 1..Len(g) :
                 LET m == g[i].models
                 IN /\ \A k \in 1..Len(m) : m[k].poolId = g[i].poolId /\ m[k] = q[m[k].modelId]
                    /\ \A k \in 1..(Len(m) - 1) : m[k].modelId < m[k + 1].modelId
                    /\ \A j \in 1..Len(q) :
                          q[j].poolId = g[i].poolId => \E k \in 1..Len(m) : m[k] = q[j]
           /\ call.flattened =>
                 /\ Len(f) = Len(q)
                 /\ \A j \in 1..Len(q) : \E k \in 1..Len(f) : f[k] = q[j]
                 /\ \A k \in 1..(Len(f) - 1) :
                       \/ groupOf(f[k]) < groupOf(f[k + 1])
                       \/ /\ groupOf(f[k]) = groupOf(f[k + 1])
                          /\ f[k].modelId < f[k + 1].modelId

\* three records, the first and the third of one pool, were grouped into
\* two groups and flattened into another order than the input's
C21_Witness ==
    /\ Grouped /\ call.flattened
    /\ Len(call.quotas) = 3 /\ Len(call.result) = 2
    /\ call.quotas[1].poolId = call.quotas[3].poolId
    /\ call.flat # call.quotas


SeverityRank(status) ==
    CASE status = "exhausted" -> 0
      [] status = "critical" -> 1
      [] status = "warning" -> 2
      [] status = "healthy" -> 3
      [] status = "unknown" -> 4

\* C22: the status of every group is the status of the member with the
\* lowest severity rank, so it is the status of at least one member, also
\* when all members are Unknown
C22_WorstMember ==
    Grouped =>
        \A i \in 1..Len(call.result) :
            LET g == call.result[i]
            IN /\ \E k \in 1..Len(g.models) : g.models[k].status = g.status
               /\ \A k \in 1..Len(g.models) :
                     SeverityRank(g.status) <= SeverityRank(g.models[k].status)


RECURSIVE SumOf(_)
SumOf(numbers) == IF numbers = <<>> THEN 0 ELSE Head(numbers) + SumOf(Tail(numbers))

\* C23: in every group totalRemaining and totalCapacity are the sums over
\* the members, percentRemaining is totalRemaining / totalCapacity * 100,
\* and 0 when totalCapacity is 0, and resetTime is the least reset time of
\* the members that have one, null when none has
C23_Aggregates ==
    Grouped =>
        \A i \in 1..Len(call.result) :
            LET g == call.result[i]
                m == g.models
                times == {m[k].resetTime : k \in 1..Len(m)} \ {None}
            IN /\ g.totalRemaining = SumOf([k \in 1..Len(m) |-> m[k].remaining])
               /\ g.totalCapacity = SumOf([k \in 1..Len(m) |-> m[k].capacity])
               /\ g.percentRemaining[2] > 0
               /\ IF g.totalCapacity = 0 THEN g.percentRemaining[1] = 0
                  ELSE g.percentRemaining[1] * g.totalCapacity
                          = g.totalRemaining * 100 * g.percentRemaining[2]
               /\ IF times = {} THEN g.resetTime = None
                  ELSE g.resetTime \in times /\ \A t \in times : g.resetTime <= t

\* a group of a Critical and a Warning record: 19 of 150 remain and the
\* earlier of the two reset times is the group's
C23_Witness ==
    /\ Grouped
    /\ \E i \in 1..Len(call.result) :
          /\ Len(call.result[i].models) = 2
          /\ call.result[i].totalRemaining = 19
          /\ call.result[i].totalCapacity = 150
          /\ call.result[i].models[1].resetTime = 2
          /\ call.result[i].resetTime = 1


\* the place of a derived name among the names of the three pools
NamePlace(name) ==
    CASE name = <<"A">> -> 1
      [] name = <<"A", " ", "C">> -> 2
      [] name = <<"B">> -> 3
      [] OTHER -> 0

\* C24: of two consecutive groups of the list groupByPool returns, the
\* first has the lower severity rank, or the ranks are equal and its
\* derived name does not sort after the second's; custom names have no
\* part in the order
C24_Order ==
    Grouped =>
        LET g == call.result
        IN /\ \A i \in 1..Len(g) :
                 NamePlace(g[i].groupName) =
                    CASE g[i].poolId = <<"a", "-", "P", "O", "O", "L">> -> 1
                      [] g[i].poolId = <<"a", "-", "c">> -> 2
                      [] g[i].poolId = <<"b">> -> 3
           /\ \A i \in 1..(Len(g) - 1) :
                 \/ SeverityRank(g[i].status) < SeverityRank(g[i + 1].status)
                 \/ /\ SeverityRank(g[i].status) = SeverityRank(g[i + 1].status)
                    /\ NamePlace(g[i].groupName) <= NamePlace(g[i + 1].groupName)

\* the pool B came first in the input and has a custom name; its group
\* follows the group A of the same status
C24_Witness ==
    /\ Grouped
    /\ Len(call.result) >= 2
    /\ call.quotas[1].poolId = <<"b">>
    /\ call.result[1].groupName = <<"A">>
    /\ call.result[2].groupName = <<"B">>
    /\ call.result[2].customName = "Mine"
    /\ call.result[1].status = call.result[2].status


Discovered == call.fn = "connect" /\ call.returned

\* the candidate of the listing with this pid
Candidate(pid) == CHOOSE proc \in {call.procs[i] : i \in 1..Len(call.procs)} : proc.pid = pid

\* C26: on every platform, the connection that discovery holds is never to
\* a process whose command line lacks the ownership marker (the
\* --app_data_dir antigravity argument or an antigravity path segment)
C26_OwnedOnly ==
    Discovered /\ call.result.processInfo # NULL =>
        LET proc == Candidate(call.result.processInfo.pid)
        IN proc.appDataDir = "antigravity" \/ proc.inPath

\* the ports the tool reported, and those of them that answer the probe
Reported == {call.raw[i] : i \in 1..Len(call.raw)}
Answering == Reported \cap call.okPorts

\* C27: the candidate ports are probed without duplicates in strictly
\* ascending order; the working port is the smallest candidate that
\* answers the probe, every smaller candidate has been probed and no
\* larger one; and there is no working port exactly when no candidate
\* answers, all of them having been probed
C27_AscendingProbes ==
    Discovered /\ Len(call.result.steps) = 3 =>
        LET probes == call.result.probes
            probedPorts == {probes[i] : i \in 1..Len(probes)}
        IN /\ \A i, j \in 1..Len(probes) : i < j => probes[i] < probes[j]
           /\ probedPorts \subseteq Reported
           /\ (call.result.processInfo = NULL) = (Answering = {})
           /\ IF Answering = {}
              THEN probedPorts = Reported
              ELSE /\ call.result.processInfo.connectPort \in Answering
                   /\ \A p \in Answering : call.result.processInfo.connectPort <= p
                   /\ probedPorts =
                         {p \in Reported : p <= call.result.processInfo.connectPort}

\* four ports were reported, one twice and out of order; the two smaller
\* candidates were probed, the second answered and the largest was left
C27_Witness ==
    /\ Discovered
    /\ call.raw = <<42003, 42001, 42003, 42002>>
    /\ call.okPorts = {42002, 42003}
    /\ call.result.probes = <<42001, 42002>>
    /\ call.result.processInfo # NULL
    /\ call.result.processInfo.connectPort = 42002

\* the token of a candidate parses: the parameter is there and its value
\* begins with a hexadecimal digit or a hyphen
TokenParses(proc) ==
    /\ proc.tokenParam
    /\ proc.token # <<>>
    /\ Head(proc.token) \in {"0", "1", "2", "3", "4", "5", "6", "7", "8", "9",
                              "a", "b", "c", "d", "e", "f",
                              "A", "B", "C", "D", "E", "F", "-"}

\* C28: one connect() runs its steps in order, each at most once, and
\* probes no port twice; when no process is found (in particular when no
\* candidate's token parses), no port is listening or no port answers the
\* probe, no connection is held and fetchQuota returns the unsuccessful
\* result without a data request
C28_FailsQuietly ==
    Discovered =>
        LET r == call.result
        IN /\ r.steps = SubSeq(<<"findProcess", "getListeningPorts", "findWorkingPort">>,
                               1, Len(r.steps))
           /\ \A i, j \in 1..Len(r.probes) : i # j => r.probes[i] # r.probes[j]
           /\ (\A i \in 1..Len(call.procs) : ~TokenParses(call.procs[i])) =>
                 r.basicInfo = NULL
           /\ r.basicInfo = NULL \/ Reported = {} \/ Answering = {} =>
                 /\ r.processInfo = NULL
                 /\ r.requests = 0
                 /\ r.fetched # NULL
                 /\ ~r.fetched.success
                 /\ r.fetched.quotas = <<>>
           /\ r.basicInfo = NULL => r.steps = <<"findProcess">> /\ r.probes = <<>>
           /\ r.basicInfo # NULL /\ Reported = {} =>
                 Len(r.steps) = 2 /\ r.probes = <<>>

\* a process was found and two ports listen, but neither answers the
\* probe: both were probed once and fetchQuota returned without a request
C28_Witness ==
    /\ Discovered
    /\ call.result.basicInfo # NULL
    /\ call.raw = <<42002, 42001, 42002>>
    /\ call.okPorts = {42003}
    /\ call.result.probes = <<42001, 42002>>
    /\ call.result.processInfo = NULL
    /\ call.result.requests = 0
    /\ ~call.result.fetched.success

\* C30: on every platform, when all candidates are owned, findProcess
\* returns the first candidate whose token parses, with 0 as the
\* advertised port when the candidate has no port parameter, and nothing
\* when no token parses
C30_FirstParsed ==
    Discovered /\ (\A i \in 1..Len(call.procs) :
                      call.procs[i].appDataDir = "antigravity" \/ call.procs[i].inPath) =>
        LET parsing == {i \in 1..Len(call.procs) : TokenParses(call.procs[i])}
            first == CHOOSE i \in parsing : \A j \in parsing : i <= j
        IN IF parsing = {} THEN call.result.basicInfo = NULL
           ELSE /\ call.result.basicInfo # NULL
                /\ call.result.basicInfo.pid = call.procs[first].pid
                /\ call.result.basicInfo.extensionPort =
                      (IF call.procs[first].port = None THEN 0
                       ELSE call.procs[first].port)

(***************************************************************************)
(* Properties of the thresholds                                            *)
(***************************************************************************)
\* C29: the records of the result a cycle fetched (not a stored result
\* served again) have the status that the thresholds read at the start of
\* that cycle give to their percentage, whatever was configured or read
\* by another cycle while the request was in flight
C29_ThresholdsOfCycle ==
    ret # NULL /\ ret.result # NULL /\ ret.result.source # "cache" =>
        \A i \in 1..Len(ret.result.quotas) :
            ret.result.quotas[i].status =
                calculateStatus(ret.result.quotas[i].percentRemaining, ret.read)

(***************************************************************************)
(* Properties of the results                                               *)
(***************************************************************************)
\* C31: the timestamp of the result a cycle returns is not earlier than
\* the start of that cycle (the clock reads c when cycle c starts), also
\* when the result is served from the stored one
C31_TimestampOfAttempt ==
    ret # NULL /\ ret.result # NULL => ret.result.timestamp >= ret.cycle

\* C32: a result tagged local that a cycle returns to the listeners, or
\* stores as the first snapshot, holds records of a data request the peer
\* answered in that cycle
C32_LocalIsFromPeer ==
    ret # NULL =>
        /\ ret.result # NULL /\ ret.result.source = "local" => ret.local = "ok"
        /\ ~ret.hadCache /\ lastFetchResult # NULL /\ lastFetchResult.source = "local" =>
              ret.local = "ok"

\* fetchQuota has returned for the reply of the peer
Fetched == call # NULL /\ call.fn = "fetchQuota" /\ call.returned

\* C33: fetchQuota returns success only for a reply with a success HTTP
\* status; a reply with another status is a failure, whatever its body,
\* and leaves no connection held
C33_StatusChecked ==
    Fetched =>
        /\ call.result.success =>
              call.reply.kind = "reply" /\ call.reply.status \in 200..299
        /\ call.reply.kind = "reply" /\ call.reply.status \notin 200..299 =>
              ~call.result.success /\ call.after = NULL

\* C37: for a reply that parses to an object, fetchQuota succeeds with one
\* record per model that has a quotaInfo, in order; a model whose
\* quotaInfo has no remainingFraction gives remaining 100 of capacity 100,
\* 100 percent, and is not Exhausted
C37_SparseModels ==
    Fetched /\ call.reply.kind = "reply" /\ call.reply.body.json = "object" =>
        LET models == call.reply.body.models
            withQuota == {i \in 1..Len(models) : models[i].quotaInfo # NULL}
            place(i) == Cardinality({j \in withQuota : j <= i})
        IN /\ call.result.success
           /\ Len(call.result.quotas) = Cardinality(withQuota)
           /\ \A i \in withQuota :
                 LET q == call.result.quotas[place(i)]
                 IN /\ models[i].model # <<>> => q.modelId = models[i].model
                    /\ models[i].quotaInfo.remainingFraction = None =>
                          /\ q.remaining = 100
                          /\ q.capacity = 100
                          /\ q.percentRemaining[1] = 100 * q.percentRemaining[2]
                          /\ q.status # "exhausted"

\* the reply listed three models, one with a quotaInfo that has no
\* remainingFraction: it alone is reported, with 100 of 100
C37_Witness ==
    /\ Fetched
    /\ call.reply.kind = "reply"
    /\ call.reply.body.json = "object"
    /\ Len(call.reply.body.models) = 3
    /\ call.result.success
    /\ Len(call.result.quotas) = 1
    /\ call.result.quotas[1].modelId = <<"m", "1">>
    /\ call.result.quotas[1].remaining = 100
    /\ call.result.quotas[1].status = "healthy"

(***************************************************************************)
(* Properties of the paused and the stopped scheduler                      *)
(***************************************************************************)
\* C34: a fetch cycle that starts while the scheduler is paused was
\* requested through pollNow()
C34_PausedStartsNothing ==
    [][isPaused /\ now' # now => cycle'[now'].trigger = "pollNow"]_vars

\* stop() has been called on a running scheduler and nothing has started
\* it since: intervalSeconds leaves its initial value only in start(),
\* which arms the timer, and only stop() clears the handle
Stopped == timer = None /\ intervals = {} /\ intervalSeconds # 120

\* C35: while the scheduler is stopped, the timer is armed and a fetch
\* cycle starts only by start(), restart() or pollNow()
C35_StoppedStaysStopped ==
    [][Stopped /\ (timer' # None \/ intervals' # {} \/ now' # now) =>
          now' # now /\ cycle'[now'].trigger \in {"start", "restart", "pollNow"}]_vars

(***************************************************************************)
(* Properties of the notifications                                         *)
(***************************************************************************)
\* the severity of a status that is notified
NotifiedRank(status) ==
    CASE status = "warning" -> 1
      [] status = "critical" -> 2
      [] status = "exhausted" -> 3
      [] OTHER -> 0

C39_EveryHour ==
    currentTask # NULL =>
        /\ currentTask.nextRun % 60 = 0
        /\ currentTask.nextRun <= clock - (clock % 60) + 60
        /\ currentTask.lastRun # None =>
              /\ currentTask.lastRun < currentTask.nextRun
              /\ currentTask.nextRun <= currentTask.lastRun + 60

(***************************************************************************)
(* Properties of the stored accounts                                       *)
(***************************************************************************)
\* C40: when all calls of storeAccountCredentials and
\* deleteAccountCredentials have returned, no account id is stored twice,
\* every id that was stored and never deleted is in the list, and no id
\* that was deleted and never stored is
C40_NoLostAccount ==
    (\A o \in AccountOps : accountOps[o].pc = "done") =>
        LET did(kind, id) ==
                \E o \in AccountOps :
                    accountOps[o].kind = kind /\ accountOps[o].accountId = id
            stored(id) == \E i \in 1..Len(secretStorage) : secretStorage[i] = id
        IN /\ \A i, j \in 1..Len(secretStorage) :
                 secretStorage[i] = secretStorage[j] => i = j
           /\ \A id \in {"a", "b"} :
                 /\ did("store", id) /\ ~did("delete", id) => stored(id)
                 /\ did("delete", id) /\ ~did("store", id) => ~stored(id)

(***************************************************************************)
(* Properties of the held connection                                       *)
(***************************************************************************)
\* C36: with the calls of fetchQuota() made one after the other, when a
\* call returns (its cycle leaves the wait for discovery or for the data
\* request and goes on to the remote endpoint or ends) a connection is
\* held exactly if the result is successful, and a held connection has the
\* token of the process and a port that answered the probe of the
\* discovery of the cycle that stored it
C36_ConnectedIffSuccess ==
    [][\A c \in Cycles :
          /\ cycle[c].pc \in {"connecting", "request"} /\ cycle'[c].pc \in {"remote", "done"} =>
                (processInfo' # NULL) =
                    (cycle'[c].pc = "done" /\ ret'.local = "ok")
          /\ cycle[c].pc = "connecting" /\ processInfo' # processInfo =>
                /\ processInfo' # NULL
                /\ processInfo'.discoveredBy = c
                /\ \E basicInfo \in Processes \ {NULL}, ports \in PortLists,
                      okPorts \in ProbeAnswers :
                      /\ processInfo'.conn.pid = basicInfo.pid
                      /\ processInfo'.conn.csrfToken = basicInfo.csrfToken
                      /\ processInfo'.conn.connectPort \in okPorts
                      /\ \E i \in 1..Len(ports) : ports[i] = processInfo'.conn.connectPort]_vars

\* the second call used the connection of the first, its data request
\* failed, and no connection is held when it has returned
C36_Witness ==
    /\ ret # NULL
    /\ ret.cycle = 2
    /\ ret.local = "failed"
    /\ processInfo = NULL
    /\ InFlight = {}

=============================================================================
